---- MODULE Spec2Model ----
(***************************************************************************)
(* FlexCore template: the settings store of the Electron host process     *)
(* (class MainWindow of src/main/main.js, the variant with splash screen, *)
(* tray and global shortcuts), the preload bridge, and the settings page  *)
(* of the renderer (AppRenderer).                                          *)
(*                                                                         *)
(* A settings document is a JavaScript object tree.  It is modelled as    *)
(* the sequence of its nodes in property insertion order: one entry       *)
(* [p |-> path, v |-> value] per node, the root first (path << >>).       *)
(* A JavaScript value is a record [t |-> type, s |-> literal].            *)
(***************************************************************************)
EXTENDS Naturals, Sequences, FiniteSets, TLC

\* ------------------------------------------------------------ bounds
\* Requests the host handles in one run.
MaxOps == 2
\* Requests the host handles in one run of the shortcut scenarios.
MaxShortcutOps == 3
\* Requests the host handles in one run of the settings page.
MaxRendererOps == 5
\* Edits the user makes on the settings page.
MaxEdits == 2
\* Requests and window events the host handles in one run of the window scenarios.
MaxWindowOps == 3
\* Requests and window events the host handles in one run of interleaved mutations.
MaxMutations == 3
\* Requests the host handles in one run of the tray scenarios.
MaxTrayOps == 3

\* ------------------------------------------------- JavaScript values
Obj == [t |-> "object", s |-> "{}"]
Undefined == [t |-> "undefined", s |-> "undefined"]
Null == [t |-> "null", s |-> "null"]
Str(x) == [t |-> "string", s |-> x]
Bool(b) == [t |-> "boolean", s |-> IF b THEN "true" ELSE "false"]
Num(x) == [t |-> "number", s |-> x]

\* ToBoolean: what `!x`, `x || y`, `if (x)` test.
Truthy(v) == v \notin {Undefined, Null, Bool(FALSE), Num("0"), Num("NaN"), Str("")}

\* ------------------------------------------------ settings documents
Entry(p, v) == [p |-> p, v |-> v]
PathsOf(d) == {d[i].p : i \in DOMAIN d}
IndexOf(d, p) == CHOOSE i \in DOMAIN d : d[i].p = p
IsPrefix(q, p) == Len(q) <= Len(p) /\ SubSeq(p, 1, Len(q)) = q
IsProperPrefix(q, p) == Len(q) < Len(p) /\ IsPrefix(q, p)
Parent(p) == SubSeq(p, 1, Len(p) - 1)

\* settings.a?.b...: the value found by walking p from the root; a segment
\* that is absent (or looked up on a primitive or through ?.) reads undefined.
Read(d, p) == IF p \in PathsOf(d) THEN d[IndexOf(d, p)].v ELSE Undefined

\* obj[k] = v on the object at Parent(p): an existing key keeps its place in
\* the key order and loses its old subtree, a new key goes last.
Assign(d, p, v) ==
    IF p \in PathsOf(d)
    THEN LET kept == SelectSeq(d, LAMBDA e : ~IsProperPrefix(p, e.p))
         IN  [i \in DOMAIN kept |-> IF kept[i].p = p THEN Entry(p, v) ELSE kept[i]]
    ELSE Append(d, Entry(p, v))

\* Deep equality of two documents: same paths, same values, key order aside.
DeepEqual(a, b) == {a[i] : i \in DOMAIN a} = {b[i] : i \in DOMAIN b}

\* The object literal returned by loadSettings when the file cannot be used.
LoadDefaults ==
    << Entry(<< >>, Obj),
       Entry(<<"appearance">>, Obj),
       Entry(<<"appearance", "theme">>, Str("dark")),
       Entry(<<"appearance", "fontFamily">>, Str("smooch-sans")),
       Entry(<<"appearance", "accentColor">>, Str("#00a2ff")),
       Entry(<<"appearance", "titlebarButtonStyle">>, Str("round")),
       Entry(<<"behavior">>, Obj),
       Entry(<<"behavior", "defaultWindowState">>, Str("normal")),
       Entry(<<"behavior", "rememberWindowSize">>, Bool(TRUE)),
       Entry(<<"behavior", "launchOnStartup">>, Bool(FALSE)),
       Entry(<<"behavior", "startMinimizedToTray">>, Bool(FALSE)),
       Entry(<<"behavior", "minimizeToTray">>, Bool(FALSE)),
       Entry(<<"behavior", "closeToTray">>, Bool(FALSE)),
       Entry(<<"behavior", "alwaysOnTop">>, Bool(FALSE)),
       Entry(<<"window">>, Obj),
       Entry(<<"window", "width">>, Num("1200")),
       Entry(<<"window", "height">>, Num("800")),
       Entry(<<"window", "x">>, Null),
       Entry(<<"window", "y">>, Null) >>

\* The object literal installed by the restore-default-settings handler.
RestoreDefaults ==
    << Entry(<< >>, Obj),
       Entry(<<"appearance">>, Obj),
       Entry(<<"appearance", "theme">>, Str("dark")),
       Entry(<<"appearance", "fontFamily">>, Str("inconsolata")),
       Entry(<<"appearance", "fontSize">>, Str("small")),
       Entry(<<"appearance", "accentColor">>, Str("#28ca42")),
       Entry(<<"appearance", "titlebarButtonStyle">>, Str("square")),
       Entry(<<"behavior">>, Obj),
       Entry(<<"behavior", "defaultWindowState">>, Str("normal")),
       Entry(<<"behavior", "rememberWindowSize">>, Bool(TRUE)),
       Entry(<<"behavior", "launchOnStartup">>, Bool(FALSE)),
       Entry(<<"behavior", "startMinimizedToTray">>, Bool(TRUE)),
       Entry(<<"behavior", "minimizeToTray">>, Bool(FALSE)),
       Entry(<<"behavior", "closeToTray">>, Bool(TRUE)),
       Entry(<<"behavior", "alwaysOnTop">>, Bool(FALSE)),
       Entry(<<"advanced">>, Obj),
       Entry(<<"advanced", "keyboardShortcuts">>, Obj),
       Entry(<<"advanced", "keyboardShortcuts", "close">>, Str("Ctrl+Q")),
       Entry(<<"advanced", "keyboardShortcuts", "minimize">>, Str("Ctrl+M")),
       Entry(<<"advanced", "keyboardShortcuts", "maximize">>, Str("Ctrl+Shift+M")),
       Entry(<<"advanced", "keyboardShortcuts", "show">>, Str("Ctrl+Shift+S")),
       Entry(<<"advanced", "keyboardShortcuts", "hide">>, Str("Ctrl+H")),
       Entry(<<"window">>, Obj),
       Entry(<<"window", "width">>, Num("1200")),
       Entry(<<"window", "height">>, Num("800")),
       Entry(<<"window", "x">>, Null),
       Entry(<<"window", "y">>, Null) >>

\* The leaves of the persisted schema (the paths the application reads).
RecognisedPaths ==
    {<<"appearance", k>> : k \in {"theme", "fontFamily", "fontSize", "accentColor",
                                  "titlebarButtonStyle"}}
    \cup {<<"behavior", k>> : k \in {"defaultWindowState", "rememberWindowSize",
                                     "launchOnStartup", "startMinimizedToTray",
                                     "minimizeToTray", "closeToTray", "alwaysOnTop"}}
    \cup {<<"advanced", "keyboardShortcuts", k>> :
             k \in {"close", "minimize", "maximize", "show", "hide"}}
    \cup {<<"window", k>> : k \in {"width", "height", "x", "y"}}

\* The value the application works with for a recognised path: the readers of
\* the document put a literal in the place of a missing or falsy stored value
\* for the appearance, the behavior and the window size; the window position
\* and the keyboard shortcuts are used as stored.
readSetting(d, p) ==
    LET stored == Read(d, p)
        fallback ==
            IF p = <<"appearance", "theme">> THEN Str("dark")
            ELSE IF p = <<"appearance", "fontFamily">> THEN Str("smooch-sans")
            ELSE IF p = <<"appearance", "fontSize">> THEN Str("small")
            ELSE IF p = <<"appearance", "titlebarButtonStyle">> THEN Str("round")
            ELSE IF p = <<"appearance", "accentColor">> THEN Str("#00a2ff")
            ELSE IF p = <<"behavior", "defaultWindowState">> THEN Str("normal")
            ELSE IF p[1] = "behavior" THEN Bool(FALSE)
            ELSE IF p = <<"window", "width">> THEN Num("1200")
            ELSE IF p = <<"window", "height">> THEN Num("800")
            ELSE stored
    IN  IF Truthy(stored) THEN stored ELSE fallback

\* ------------------------------------------------------- JSON text
\* JSON.stringify(doc, null, 2): one token per node, in key order; a string
\* is written quoted, NaN as null, a property holding undefined is left out.
TokenOf(v) ==
    IF v.t = "string" THEN [q |-> TRUE, lit |-> v.s]
    ELSE IF v.t = "object" THEN [q |-> FALSE, lit |-> "{"]
    ELSE IF v = Num("NaN") THEN [q |-> FALSE, lit |-> "null"]
    ELSE [q |-> FALSE, lit |-> v.s]

JSONStringify(d) ==
    LET kept == SelectSeq(d, LAMBDA e : e.v # Undefined)
    IN  [i \in DOMAIN kept |-> [p |-> kept[i].p, tok |-> TokenOf(kept[i].v)]]

\* JSON.parse of such a text.
ValueOf(tok) ==
    IF tok.q THEN Str(tok.lit)
    ELSE IF tok.lit = "{" THEN Obj
    ELSE IF tok.lit = "null" THEN Null
    ELSE IF tok.lit \in {"true", "false"} THEN Bool(tok.lit = "true")
    ELSE Num(tok.lit)

JSONParse(text) == [i \in DOMAIN text |-> Entry(text[i].p, ValueOf(text[i].tok))]

\* ------------------------------------------------------------ files
\* A file is missing, unreadable (readFileSync throws), corrupt (JSON.parse
\* throws) or holds a JSON text.
NoText == << >>
Missing == [state |-> "missing", text |-> NoText]
Unreadable == [state |-> "unreadable", text |-> NoText]
Corrupt == [state |-> "corrupt", text |-> NoText]
TextFile(text) == [state |-> "text", text |-> text]

settingsPath == "config/settings.json"
ExportPath == "exported/settings.json"
FilePaths == {settingsPath, ExportPath}

\* ------------------------------------------------------------ state
VARIABLES
    hostPc,          \* "start" before new MainWindow(), then "ready" or "crashed"
    settings,        \* this.settings
    files,           \* the file system: path -> file
    window,          \* this.window and the state of that BrowserWindow
    splashWindow,    \* this.splashWindow is a live window
    tray,            \* Tray objects created
    autoLaunch,      \* openAtLogin as last given to app.setLoginItemSettings
    globalShortcuts, \* this.globalShortcuts: action -> accelerator
    osShortcuts,     \* accelerators this process holds at the OS: accelerator -> action
    takenByOthers,   \* accelerators held by other applications
    splashTimers,    \* pending 100 ms timers set by splash-complete
    exportDialog,    \* the export-settings handler is waiting at its save dialog
    duringDialog,    \* a request changed the settings while that dialog was open
    lastReq,         \* the request handled last and what it answered
    nOps             \* requests handled

VARIABLES
    rPc,               \* the renderer: "none" (no page), "idle", or inside the save click
    rSettings,         \* AppRenderer.settings, its copy of the document
    pendingSettings,   \* AppRenderer.pendingSettings, in key order
    hasUnsavedChanges, \* AppRenderer.hasUnsavedChanges
    batch,             \* Object.entries(pendingSettings) of the save in progress
    bIdx,              \* the entry of batch whose save-setting request is in flight
    ipc,               \* the renderer's invoke the host has not handled yet
    saveOutcome,       \* how the last save click ended
    updateRequests,    \* update-global-shortcuts requests sent by the last save click
    nEdits,            \* updatePendingSetting calls
    exportIpc,         \* the export click's invoke and the result it resolved to
    exportNotice       \* the notification the export click showed last

VARIABLES
    splashPage,        \* the splash page: its two splashComplete timers, the signals sent
    pushed,            \* channels the host sent to the main page for the last event
    themeSelect,       \* value of the theme selector of the settings page
    dataTheme,         \* data-theme attribute of the document element
    prefersDark        \* the OS colour-scheme preference is dark

VARIABLES
    styleLog,          \* the appearance values applied so far, with what each set
    isForceQuitting,   \* this.isForceQuitting
    platform,          \* process.platform, "any" until the code first tests it
    mainWindows,       \* BrowserWindow objects createWindow() has made
    splashDestroys,    \* destroy() calls on the splash window
    isMaximized,       \* AppRenderer.isMaximized
    initError          \* the bridge function init() called and did not find, or ""

lifeVars == <<isForceQuitting, platform, mainWindows, splashDestroys>>
pageVars == <<isMaximized, initError>>
appVars == <<styleLog, lifeVars, pageVars>>
noteVars == <<splashPage, pushed>>
themeVars == <<themeSelect, dataTheme, prefersDark>>
NoSplashPage == [complete |-> "unset", fallback |-> "unset", signals |-> 0]

rVars == <<rPc, rSettings, pendingSettings, hasUnsavedChanges, batch, bIdx, ipc,
           saveOutcome, updateRequests, nEdits, exportIpc, exportNotice>>

exportVars == <<exportIpc, exportNotice>>
NoNotice == [text |-> "", arg |-> "", type |-> ""]

NoInvoke == [op |-> "none", key |-> << >>, value |-> [t |-> "undefined", s |-> "undefined"]]

hostVars == <<hostPc, settings, files, window, splashWindow, tray, autoLaunch,
              globalShortcuts, osShortcuts, splashTimers, exportDialog,
              duringDialog, lastReq, nOps>>

NoWindow == [exists |-> FALSE, visible |-> FALSE, alwaysOnTop |-> FALSE,
             readyToShow |-> FALSE, onMaximize |-> 0, minimized |-> FALSE,
             maximized |-> FALSE]
NoDoc == << >>
Req(op, key, value, status, written, ret, dest) ==
    [op |-> op, key |-> key, value |-> value, status |-> status,
     written |-> written, ret |-> ret, dest |-> dest]
NoReq == Req("none", << >>, Undefined, "none", FALSE, NoDoc, "")

\* ------------------------------------------------- settings on disk
loadSettings(file) ==
    IF file.state = "text" THEN JSONParse(file.text) ELSE LoadDefaults

\* fs.writeFileSync(path, text) opens the file for writing, which empties it,
\* and then writes.  It returns with the text written, or throws: "refused"
\* when the file could not be opened (it is left as it was), "truncated" when
\* the write failed after the open (the file is left without parsable content).
WriteOutcomes == {"written", "refused", "truncated"}

\* A write that removes the file when it fails.
writeFileSyncUnlink(fs, path, text, outcome) ==
    IF outcome = "written" THEN [fs EXCEPT ![path] = TextFile(text)]
    ELSE [fs EXCEPT ![path] = Missing]

writeFileSync(fs, path, text, outcome) ==
    IF outcome = "written" THEN [fs EXCEPT ![path] = TextFile(text)]
    ELSE IF outcome = "truncated" THEN [fs EXCEPT ![path] = Corrupt]
    ELSE fs

\* saveSettings without the mkdirSync of a missing directory: a settings file
\* that does not exist yet is never created.
saveSettingsExistingOnly(fs, doc, outcome) ==
    IF fs[settingsPath].state # "missing"
    THEN writeFileSync(fs, settingsPath, JSONStringify(doc), outcome)
    ELSE fs

\* saveSettings(): a throw of the write is caught and logged.
saveSettings(fs, doc, outcome) ==
    writeFileSync(fs, settingsPath, JSONStringify(doc), outcome)

\* ------------------------------------------------- global shortcuts
shortcutActions == {"close", "minimize", "maximize", "show", "hide"}
Accelerators == {"Ctrl+Q", "Ctrl+M", "Ctrl+Shift+M", "Ctrl+Shift+S", "Ctrl+H", "Ctrl+W"}
keyboardShortcuts == <<"advanced", "keyboardShortcuts">>
Range(f) == {f[x] : x \in DOMAIN f}
Restrict(f, S) == [x \in S |-> f[x]]

\* A forEach that ends at the first registration that fails.
RECURSIVE registerEachAbort(_, _, _, _)
registerEachAbort(entries, tracked, os, taken) ==
    IF entries = << >> THEN [tracked |-> tracked, os |-> os]
    ELSE LET action == Head(entries).p[3]
             accelerator == Head(entries).v
             success == /\ Truthy(accelerator)
                        /\ action \in shortcutActions
                        /\ accelerator.t = "string"
                        /\ accelerator.s \in Accelerators
                        /\ accelerator.s \notin taken
                        /\ accelerator.s \notin DOMAIN os
         IN  IF success
             THEN registerEachAbort(Tail(entries), (action :> accelerator.s) @@ tracked,
                                    (accelerator.s :> action) @@ os, taken)
             ELSE [tracked |-> tracked, os |-> os]

\* The forEach over Object.entries(shortcuts): globalShortcut.register throws
\* on a value that is no accelerator and returns false on an accelerator that
\* is already held, by this process or by another one.
RECURSIVE registerEach(_, _, _, _)
registerEach(entries, tracked, os, taken) ==
    IF entries = << >> THEN [tracked |-> tracked, os |-> os]
    ELSE LET action == Head(entries).p[3]
             accelerator == Head(entries).v
             success == /\ Truthy(accelerator)
                        /\ action \in shortcutActions
                        /\ accelerator.t = "string"
                        /\ accelerator.s \in Accelerators
                        /\ accelerator.s \notin taken
                        /\ accelerator.s \notin DOMAIN os
         IN  IF success
             THEN registerEach(Tail(entries), (action :> accelerator.s) @@ tracked,
                               (accelerator.s :> action) @@ os, taken)
             ELSE registerEach(Tail(entries), tracked, os, taken)

\* registerGlobalShortcuts without the "clear existing shortcuts" block.
registerGlobalShortcutsNoClear(doc, tracked, os, taken) ==
    LET shortcuts == Read(doc, keyboardShortcuts)
        entries == SelectSeq(doc, LAMBDA e : Len(e.p) = 3 /\ Parent(e.p) = keyboardShortcuts)
    IN  IF ~Truthy(shortcuts) THEN [tracked |-> << >>, os |-> os]
        ELSE registerEach(entries, << >>, os, taken)

registerGlobalShortcuts(doc, tracked, os, taken) ==
    LET cleared == Restrict(os, DOMAIN os \ Range(tracked))
        shortcuts == Read(doc, keyboardShortcuts)
        entries == SelectSeq(doc, LAMBDA e : Len(e.p) = 3 /\ Parent(e.p) = keyboardShortcuts)
    IN  IF ~Truthy(shortcuts) THEN [tracked |-> << >>, os |-> cleared]
        ELSE registerEach(entries, << >>, cleared, taken)

\* ----------------------------------------------------- construction
\* A settings file that lacks sections and keys:
\* {"appearance": {"theme": "light"}, "behavior": {"rememberWindowSize": true}}
PartialDocument ==
    << Entry(<< >>, Obj),
       Entry(<<"appearance">>, Obj),
       Entry(<<"appearance", "theme">>, Str("light")),
       Entry(<<"behavior">>, Obj),
       Entry(<<"behavior", "rememberWindowSize">>, Bool(TRUE)) >>

\* The settings file found at start: none, one that cannot be read or parsed,
\* the texts `null` and `{}`, a partial document, and the document an earlier
\* run wrote after restoring the defaults.
InitialFiles ==
    { Missing, Unreadable, Corrupt,
      TextFile(JSONStringify(<<Entry(<< >>, Null)>>)),
      TextFile(JSONStringify(<<Entry(<< >>, Obj)>>)),
      TextFile(JSONStringify(PartialDocument)),
      TextFile(JSONStringify(RestoreDefaults)) }

Init ==
    /\ hostPc = "start"
    /\ settings = NoDoc
    /\ \E f \in InitialFiles :
          files = [p \in FilePaths |-> IF p = settingsPath THEN f ELSE Missing]
    /\ window = NoWindow
    /\ splashWindow = FALSE
    /\ tray = 0
    /\ autoLaunch = FALSE
    /\ globalShortcuts = << >>
    /\ osShortcuts = << >>
    /\ takenByOthers = {}
    /\ splashTimers = 0
    /\ exportDialog = FALSE
    /\ duringDialog = FALSE
    /\ lastReq = NoReq
    /\ nOps = 0
    /\ rPc = "none"
    /\ rSettings = NoDoc
    /\ pendingSettings = << >>
    /\ hasUnsavedChanges = FALSE
    /\ batch = << >>
    /\ bIdx = 0
    /\ ipc = NoInvoke
    /\ saveOutcome = "none"
    /\ updateRequests = 0
    /\ nEdits = 0
    /\ exportIpc = [state |-> "idle", result |-> NoDoc]
    /\ exportNotice = NoNotice
    /\ splashPage = NoSplashPage
    /\ pushed = [event |-> "", channels |-> << >>]
    /\ themeSelect = ""
    /\ dataTheme = ""
    /\ prefersDark = TRUE
    /\ styleLog = {}
    /\ isForceQuitting = FALSE
    /\ platform = "any"
    /\ mainWindows = 0
    /\ splashDestroys = 0
    /\ isMaximized = FALSE
    /\ initError = ""

\* The end of setupEventHandlers(): if (this.window) the maximize and
\* unmaximize listeners are attached to the window that exists at that moment.
attachMaximizeListeners(w) ==
    IF w.exists THEN [w EXCEPT !.onMaximize = @ + 1] ELSE w

\* splash.html as loaded by createSplashWindow(): the script sets its 5 s
\* fallback timer; the 500 ms timer of completeLoading is not set yet.
LoadedSplashPage == [complete |-> "unset", fallback |-> "pending", signals |-> 0]

\* new MainWindow(): loadSettings, createSplashWindow, setupEventHandlers,
\* registerGlobalShortcuts, setupAutoLaunch.  this.settings.advanced throws a
\* TypeError when the file parsed to null.
Construct ==
    /\ hostPc = "start"
    /\ LET doc == loadSettings(files[settingsPath])
           reg == registerGlobalShortcuts(doc, << >>, osShortcuts, takenByOthers)
       IN  /\ settings' = doc
           /\ splashWindow' = TRUE
           /\ IF Read(doc, << >>) = Null
              THEN /\ hostPc' = "crashed"
                   /\ UNCHANGED <<globalShortcuts, osShortcuts, autoLaunch>>
              ELSE /\ hostPc' = "ready"
                   /\ globalShortcuts' = reg.tracked
                   /\ osShortcuts' = reg.os
                   /\ autoLaunch' = Truthy(Read(doc, <<"behavior", "launchOnStartup">>))
    /\ window' = attachMaximizeListeners(window)
    /\ splashPage' = LoadedSplashPage
    /\ UNCHANGED <<files, tray, takenByOthers, splashTimers, exportDialog,
                   duringDialog, lastReq, nOps>>
    /\ UNCHANGED <<rVars, pushed, themeVars, appVars>>

\* ------------------------------------------------------ main window
\* createWindow() that leaves alwaysOnTop out of the BrowserWindow options.
createWindowNotOnTop(doc) ==
    [exists |-> TRUE,
     visible |-> ~Truthy(Read(doc, <<"behavior", "startMinimizedToTray">>)),
     alwaysOnTop |-> FALSE,
     readyToShow |-> TRUE,
     onMaximize |-> 0,
     minimized |-> FALSE,
     maximized |-> FALSE]

\* createWindow(): the BrowserWindow options taken from the settings; the
\* once('ready-to-show') handler of the new window is pending.
createWindow(doc) ==
    [exists |-> TRUE,
     visible |-> ~Truthy(Read(doc, <<"behavior", "startMinimizedToTray">>)),
     alwaysOnTop |-> Truthy(Read(doc, <<"behavior", "alwaysOnTop">>)),
     readyToShow |-> TRUE,
     onMaximize |-> 0,
     minimized |-> FALSE,
     maximized |-> FALSE]

\* windowConfig.x = this.settings.window.x is reached when rememberWindowSize
\* is set and settings.window?.x !== null; it throws a TypeError when
\* settings.window is undefined or null.
createWindowThrows(doc) ==
    /\ Truthy(Read(doc, <<"behavior", "rememberWindowSize">>))
    /\ Read(doc, <<"window">>) \in {Undefined, Null}

\* ipcMain.handle('splash-complete'): sets a 100 ms timer.
SplashComplete ==
    /\ hostPc = "ready"
    /\ nOps < MaxOps
    /\ nOps' = nOps + 1
    /\ splashTimers' = splashTimers + 1
    /\ UNCHANGED <<hostPc, settings, files, window, splashWindow, tray, autoLaunch,
                   globalShortcuts, osShortcuts, takenByOthers, exportDialog,
                   duringDialog, lastReq>>
    /\ UNCHANGED <<rVars, noteVars, themeVars, appVars>>

\* The timer fires: closeSplashAndShowMain().  The class body defines
\* createTray twice; the second definition, which has no "already exists"
\* test, is the one in effect.
closeSplashAndShowMain ==
    /\ splashTimers > 0
    /\ splashTimers' = splashTimers - 1
    /\ IF ~window.exists /\ createWindowThrows(settings)
       THEN UNCHANGED <<window, tray, splashWindow, mainWindows, splashDestroys>>
       ELSE /\ LET w == IF window.exists THEN window ELSE createWindow(settings)
               IN  IF Truthy(Read(settings, <<"behavior", "startMinimizedToTray">>))
                   THEN /\ window' = w
                        /\ tray' = tray + 1
                   ELSE /\ window' = [w EXCEPT !.visible = TRUE]
                        /\ tray' = tray
            /\ mainWindows' = IF window.exists THEN mainWindows ELSE mainWindows + 1
            /\ splashDestroys' = IF splashWindow THEN splashDestroys + 1
                                 ELSE splashDestroys
            /\ splashWindow' = FALSE
    /\ UNCHANGED <<hostPc, settings, files, autoLaunch, globalShortcuts, osShortcuts,
                   takenByOthers, exportDialog, duringDialog, lastReq, nOps>>
    /\ UNCHANGED <<rVars, noteVars, themeVars, styleLog, isForceQuitting, platform,
                   pageVars>>

\* ------------------------------------------------- settings handlers
\* ipcMain.handle('get-settings')
GetSettings ==
    /\ hostPc = "ready"
    /\ nOps' = nOps + 1
    /\ lastReq' = Req("get-settings", << >>, Undefined, "ok", FALSE, settings, "")
    /\ UNCHANGED <<hostPc, settings, files, window, splashWindow, tray, autoLaunch,
                   globalShortcuts, osShortcuts, takenByOthers, splashTimers,
                   exportDialog, duringDialog>>

\* The for loop of save-setting from iteration i on: `current` is the node at
\* the first i - 1 keys.  The handler is strict-mode code (a class body), so
\* creating a property on a primitive throws a TypeError.
RECURSIVE walkCreate(_, _, _)
walkCreate(d, keys, i) ==
    LET current == SubSeq(keys, 1, i - 1)
        next == SubSeq(keys, 1, i)
    IN  IF i > Len(keys) - 1 THEN [doc |-> d, threw |-> FALSE]
        ELSE IF Truthy(Read(d, next)) THEN walkCreate(d, keys, i + 1)
        ELSE IF Read(d, current).t # "object" THEN [doc |-> d, threw |-> TRUE]
        ELSE walkCreate(Assign(d, next, Obj), keys, i + 1)

\* The walk without `current = current[keys[i]]`: every level and the leaf
\* are created on the root object.
RECURSIVE setPathNoDescendFrom(_, _, _, _)
setPathNoDescendFrom(d, keys, value, i) ==
    IF Read(d, << >>).t # "object" THEN [doc |-> d, threw |-> TRUE]
    ELSE IF i > Len(keys) - 1
         THEN [doc |-> Assign(d, <<keys[Len(keys)]>>, value), threw |-> FALSE]
    ELSE IF Truthy(Read(d, <<keys[i]>>)) THEN setPathNoDescendFrom(d, keys, value, i + 1)
    ELSE setPathNoDescendFrom(Assign(d, <<keys[i]>>, Obj), keys, value, i + 1)

setPathNoDescend(d, keys, value) == setPathNoDescendFrom(d, keys, value, 1)

\* The walk, then current[keys[keys.length - 1]] = value.
setPath(d, keys, value) ==
    LET w == walkCreate(d, keys, 1)
    IN  IF w.threw THEN w
        ELSE IF Read(w.doc, Parent(keys)).t # "object" THEN [doc |-> w.doc, threw |-> TRUE]
        ELSE [doc |-> Assign(w.doc, keys, value), threw |-> FALSE]

\* ipcMain.handle('save-setting')
SaveSetting(key, value) ==
    /\ hostPc = "ready"
    /\ nOps' = nOps + 1
    /\ LET r == setPath(settings, key, value)
       IN  /\ settings' = r.doc
           /\ IF r.threw
              THEN /\ lastReq' = Req("save-setting", key, value, "threw", FALSE, NoDoc, "")
                   /\ UNCHANGED <<files, window, autoLaunch>>
              ELSE /\ window' = IF key = <<"behavior", "alwaysOnTop">> /\ window.exists
                                THEN [window EXCEPT !.alwaysOnTop = Truthy(value)]
                                ELSE window
                   /\ autoLaunch' = IF key = <<"behavior", "launchOnStartup">>
                                    THEN Truthy(value)
                                    ELSE autoLaunch
                   /\ \E outcome \in WriteOutcomes :
                         /\ files' = saveSettings(files, r.doc, outcome)
                         /\ lastReq' = Req("save-setting", key, value, "ok",
                                           outcome = "written", NoDoc, "")
    /\ duringDialog' = (duringDialog \/ exportDialog)
    /\ UNCHANGED <<hostPc, splashWindow, tray, globalShortcuts, osShortcuts,
                   takenByOthers, splashTimers, exportDialog>>

\* restore-default-settings that keeps the stored window geometry.
RestoreDefaultSettingsKeepWindow ==
    /\ hostPc = "ready"
    /\ nOps' = nOps + 1
    /\ LET geometry == SelectSeq(settings, LAMBDA e : IsPrefix(<<"window">>, e.p))
           others == SelectSeq(RestoreDefaults, LAMBDA e : ~IsPrefix(<<"window">>, e.p))
           doc == IF geometry = << >> THEN RestoreDefaults ELSE others \o geometry
       IN  /\ settings' = doc
           /\ \E outcome \in WriteOutcomes :
                 /\ files' = saveSettings(files, doc, outcome)
                 /\ lastReq' = Req("restore-default-settings", << >>, Undefined, "ok",
                                   outcome = "written", doc, "")
    /\ duringDialog' = (duringDialog \/ exportDialog)
    /\ UNCHANGED <<hostPc, window, splashWindow, tray, autoLaunch, globalShortcuts,
                   osShortcuts, takenByOthers, splashTimers, exportDialog>>

\* ipcMain.handle('restore-default-settings')
RestoreDefaultSettings ==
    /\ hostPc = "ready"
    /\ nOps' = nOps + 1
    /\ settings' = RestoreDefaults
    /\ \E outcome \in WriteOutcomes :
          /\ files' = saveSettings(files, RestoreDefaults, outcome)
          /\ lastReq' = Req("restore-default-settings", << >>, Undefined, "ok",
                            outcome = "written", RestoreDefaults, "")
    /\ duringDialog' = (duringDialog \/ exportDialog)
    /\ UNCHANGED <<hostPc, window, splashWindow, tray, autoLaunch, globalShortcuts,
                   osShortcuts, takenByOthers, splashTimers, exportDialog>>

\* The objects export-settings returns, and the message of a failed write.
WriteError == "EACCES: permission denied"
exportSuccess(filePath) ==
    << Entry(<< >>, Obj), Entry(<<"success">>, Bool(TRUE)),
       Entry(<<"path">>, Str(filePath)) >>
exportFailure(message) ==
    << Entry(<< >>, Obj), Entry(<<"success">>, Bool(FALSE)),
       Entry(<<"error">>, Str(message)) >>
exportCanceled ==
    << Entry(<< >>, Obj), Entry(<<"success">>, Bool(FALSE)),
       Entry(<<"canceled">>, Bool(TRUE)) >>

\* ipcMain.handle('export-settings') up to `await dialog.showSaveDialog`.
ExportSettingsBegin ==
    /\ hostPc = "ready"
    /\ ~exportDialog
    /\ exportDialog' = TRUE
    /\ duringDialog' = FALSE
    /\ UNCHANGED <<hostPc, settings, files, window, splashWindow, tray, autoLaunch,
                   globalShortcuts, osShortcuts, takenByOthers, splashTimers,
                   lastReq, nOps>>

\* export-settings that copies the settings file instead of serialising the
\* in-memory document.
ExportSettingsEndCopyFile ==
    /\ exportDialog
    /\ exportDialog' = FALSE
    /\ nOps' = nOps + 1
    /\ \/ /\ lastReq' = Req("export-settings", << >>, Undefined, "canceled", FALSE,
                            exportCanceled, "")
          /\ files' = files
       \/ \E filePath \in FilePaths, outcome \in WriteOutcomes :
             IF outcome = "written" /\ files[settingsPath].state = "text"
             THEN /\ files' = [files EXCEPT ![filePath] = files[settingsPath]]
                  /\ lastReq' = Req("export-settings", << >>, Undefined, "success",
                                    TRUE, exportSuccess(filePath), filePath)
             ELSE /\ files' = files
                  /\ lastReq' = Req("export-settings", << >>, Undefined, "error",
                                    FALSE, exportFailure(WriteError), filePath)
    /\ UNCHANGED <<hostPc, settings, window, splashWindow, tray, autoLaunch,
                   globalShortcuts, osShortcuts, takenByOthers, splashTimers,
                   duringDialog>>

\* The dialog resolves: canceled, or a chosen path that the handler writes
\* to; a failing write is reported as {success: false, error}.
ExportSettingsEnd ==
    /\ exportDialog
    /\ exportDialog' = FALSE
    /\ nOps' = nOps + 1
    /\ \/ /\ lastReq' = Req("export-settings", << >>, Undefined, "canceled", FALSE,
                            exportCanceled, "")
          /\ files' = files
       \/ \E filePath \in FilePaths, outcome \in WriteOutcomes :
             IF outcome = "written"
             THEN /\ files' = writeFileSync(files, filePath, JSONStringify(settings), outcome)
                  /\ lastReq' = Req("export-settings", << >>, Undefined, "success",
                                    TRUE, exportSuccess(filePath), filePath)
             ELSE /\ files' = writeFileSync(files, filePath, JSONStringify(settings), outcome)
                  /\ lastReq' = Req("export-settings", << >>, Undefined, "error",
                                    FALSE, exportFailure(WriteError), filePath)
    /\ UNCHANGED <<hostPc, settings, window, splashWindow, tray, autoLaunch,
                   globalShortcuts, osShortcuts, takenByOthers, splashTimers,
                   duringDialog>>

\* ipcMain.handle('update-global-shortcuts'): updateGlobalShortcuts().
UpdateGlobalShortcuts ==
    /\ hostPc = "ready"
    /\ nOps' = nOps + 1
    /\ LET reg == registerGlobalShortcuts(settings, globalShortcuts, osShortcuts,
                                          takenByOthers)
       IN  /\ globalShortcuts' = reg.tracked
           /\ osShortcuts' = reg.os
    /\ lastReq' = Req("update-global-shortcuts", << >>, Undefined, "ok", FALSE, NoDoc, "")
    /\ UNCHANGED <<hostPc, settings, files, window, splashWindow, tray, autoLaunch,
                   takenByOthers, splashTimers, exportDialog, duringDialog>>

\* ----------------------------------------------------- the store
\* Keys and values of the save-setting requests explored.
StoreKeys ==
    { <<"appearance", "theme">>,
      <<"appearance", "theme", "variant">>,
      <<"behavior", "alwaysOnTop">>,
      <<"behavior", "launchOnStartup">>,
      <<"advanced", "keyboardShortcuts", "close">>,
      <<"window", "x", "offset">> }
StoreValues == { Str("light"), Bool(TRUE), Null }

vars == <<hostPc, settings, files, window, splashWindow, tray, autoLaunch,
          globalShortcuts, osShortcuts, takenByOthers, splashTimers, exportDialog,
          duringDialog, lastReq, nOps, rPc, rSettings, pendingSettings,
          hasUnsavedChanges, batch, bIdx, ipc, saveOutcome, updateRequests, nEdits,
          exportIpc, exportNotice, splashPage, pushed, themeSelect, dataTheme,
          prefersDark, styleLog, isForceQuitting, platform, mainWindows,
          splashDestroys, isMaximized, initError>>

\* Requests sent over the bridge, MaxOps of them in one run.
GetSettingsRequest ==
    /\ nOps < MaxOps
    /\ GetSettings
    /\ UNCHANGED <<rVars, noteVars, themeVars, appVars>>

SaveSettingRequest ==
    /\ nOps < MaxOps
    /\ \E key \in StoreKeys, value \in StoreValues : SaveSetting(key, value)
    /\ UNCHANGED <<rVars, noteVars, themeVars, appVars>>

RestoreDefaultSettingsRequest ==
    /\ nOps < MaxOps
    /\ RestoreDefaultSettings
    /\ UNCHANGED <<rVars, noteVars, themeVars, appVars>>

Next ==
    \/ Construct
    \/ SplashComplete
    \/ closeSplashAndShowMain
    \/ GetSettingsRequest
    \/ SaveSettingRequest
    \/ RestoreDefaultSettingsRequest

Spec == Init /\ [][Next]_vars

\* -------------------------------------------------------- shortcuts
\* Shortcut edits followed by re-registration, with another application that
\* may hold an accelerator.
ShortcutKeys == { <<"advanced", "keyboardShortcuts", "close">>,
                  <<"advanced", "keyboardShortcuts", "minimize">> }
ShortcutValues == { Str("Ctrl+Q"), Str("Ctrl+W"), Str("Ctrl+") }
OtherAccelerators == { "Ctrl+W" }

SaveShortcutRequest ==
    /\ nOps < MaxShortcutOps
    /\ \E key \in ShortcutKeys, value \in ShortcutValues : SaveSetting(key, value)
    /\ UNCHANGED <<rVars, noteVars, themeVars, appVars>>

UpdateGlobalShortcutsRequest ==
    /\ nOps < MaxShortcutOps
    /\ UpdateGlobalShortcuts
    /\ UNCHANGED <<rVars, noteVars, themeVars, appVars>>

\* Another application registers or releases an accelerator; the OS gives an
\* accelerator to one holder at a time.
OtherApplication ==
    /\ \E a \in OtherAccelerators :
          IF a \in takenByOthers
          THEN takenByOthers' = takenByOthers \ {a}
          ELSE /\ a \notin DOMAIN osShortcuts
               /\ takenByOthers' = takenByOthers \cup {a}
    /\ UNCHANGED <<hostPc, settings, files, window, splashWindow, tray, autoLaunch,
                   globalShortcuts, osShortcuts, splashTimers, exportDialog,
                   duringDialog, lastReq, nOps>>
    /\ UNCHANGED <<rVars, noteVars, themeVars, appVars>>

NextShortcuts ==
    \/ Construct
    \/ SaveShortcutRequest
    \/ UpdateGlobalShortcutsRequest
    \/ OtherApplication

SpecShortcuts == Init /\ [][NextShortcuts]_vars

\* ----------------------------------------------------------- export
\* Export with other settings requests handled while the save dialog is open.
ExportKeys == { <<"appearance", "theme">>, <<"behavior", "alwaysOnTop">> }
ExportValues == { Str("light"), Bool(TRUE) }

SaveSettingDuringExport ==
    /\ nOps < MaxOps
    /\ \E key \in ExportKeys, value \in ExportValues : SaveSetting(key, value)
    /\ UNCHANGED <<rVars, noteVars, themeVars, appVars>>

ExportSettingsRequest ==
    /\ nOps < MaxOps
    /\ ExportSettingsBegin
    /\ UNCHANGED <<rVars, noteVars, themeVars, appVars>>

ExportSettingsReply ==
    /\ ExportSettingsEnd
    /\ UNCHANGED <<rVars, noteVars, themeVars, appVars>>

NextExport ==
    \/ Construct
    \/ SaveSettingDuringExport
    \/ RestoreDefaultSettingsRequest
    \/ ExportSettingsRequest
    \/ ExportSettingsReply

SpecExport == Init /\ [][NextExport]_vars

\* ------------------------------------------------------ window events
\* The once('ready-to-show') handler of the main window.
ReadyToShow ==
    /\ window.exists
    /\ window.readyToShow
    /\ IF Truthy(Read(settings, <<"behavior", "startMinimizedToTray">>))
       THEN /\ tray' = tray + 1
            /\ window' = [window EXCEPT !.readyToShow = FALSE, !.visible = FALSE]
       ELSE /\ tray' = tray
            /\ window' = [window EXCEPT !.readyToShow = FALSE, !.visible = TRUE]
    /\ UNCHANGED <<hostPc, settings, files, splashWindow, autoLaunch, globalShortcuts,
                   osShortcuts, takenByOthers, splashTimers, exportDialog, duringDialog,
                   lastReq, nOps>>
    /\ UNCHANGED <<rVars, noteVars, themeVars, appVars>>

\* this.window.getBounds()
Bounds(x, y, width, height) ==
    << Entry(<< >>, Obj), Entry(<<"x">>, Num(x)), Entry(<<"y">>, Num(y)),
       Entry(<<"width">>, Num(width)), Entry(<<"height">>, Num(height)) >>

WindowBounds == { Bounds("40", "60", "1024", "768"), Bounds("0", "0", "800", "600") }

\* this.settings.window = {...this.settings.window, k1: bounds.k1, k2: bounds.k2}
spreadWindow(d, bounds, k1, k2) ==
    LET base == IF Read(d, <<"window">>) = Obj THEN d ELSE Assign(d, <<"window">>, Obj)
    IN  Assign(Assign(base, <<"window", k1>>, Read(bounds, <<k1>>)),
               <<"window", k2>>, Read(bounds, <<k2>>))

\* A geometry handler that builds settings.window from the event alone.
geometryEventNoSpread(event, bounds, k1, k2) ==
    /\ hostPc = "ready"
    /\ window.exists
    /\ nOps' = nOps + 1
    /\ IF Truthy(Read(settings, <<"behavior", "rememberWindowSize">>))
       THEN /\ settings' = spreadWindow(Assign(settings, <<"window">>, Obj), bounds, k1, k2)
            /\ \E outcome \in WriteOutcomes :
                  /\ files' = saveSettings(files, settings', outcome)
                  /\ lastReq' = Req(event, << >>, Undefined, "ok", outcome = "written",
                                    bounds, "")
       ELSE /\ lastReq' = Req(event, << >>, Undefined, "ignored", FALSE, bounds, "")
            /\ UNCHANGED <<settings, files>>
    /\ duringDialog' = (duringDialog \/ exportDialog)
    /\ UNCHANGED <<hostPc, window, splashWindow, tray, autoLaunch, globalShortcuts,
                   osShortcuts, takenByOthers, splashTimers, exportDialog>>

\* The 'resize' and 'move' handlers of the main window.
geometryEvent(event, bounds, k1, k2) ==
    /\ hostPc = "ready"
    /\ window.exists
    /\ nOps' = nOps + 1
    /\ IF Truthy(Read(settings, <<"behavior", "rememberWindowSize">>))
       THEN /\ settings' = spreadWindow(settings, bounds, k1, k2)
            /\ \E outcome \in WriteOutcomes :
                  /\ files' = saveSettings(files, settings', outcome)
                  /\ lastReq' = Req(event, << >>, Undefined, "ok", outcome = "written",
                                    bounds, "")
       ELSE /\ lastReq' = Req(event, << >>, Undefined, "ignored", FALSE, bounds, "")
            /\ UNCHANGED <<settings, files>>
    /\ duringDialog' = (duringDialog \/ exportDialog)
    /\ UNCHANGED <<hostPc, window, splashWindow, tray, autoLaunch, globalShortcuts,
                   osShortcuts, takenByOthers, splashTimers, exportDialog>>

Resize ==
    /\ nOps < MaxWindowOps
    /\ \E bounds \in WindowBounds : geometryEvent("resize", bounds, "width", "height")
    /\ UNCHANGED <<rVars, noteVars, themeVars, appVars>>

Move ==
    /\ nOps < MaxWindowOps
    /\ \E bounds \in WindowBounds : geometryEvent("move", bounds, "x", "y")
    /\ UNCHANGED <<rVars, noteVars, themeVars, appVars>>

\* save-setting requests for the always-on-top flag.
AlwaysOnTopRequest ==
    /\ nOps < MaxWindowOps
    /\ \E value \in {Bool(TRUE), Bool(FALSE)} :
          SaveSetting(<<"behavior", "alwaysOnTop">>, value)
    /\ UNCHANGED <<rVars, noteVars, themeVars, appVars>>

\* save-setting requests for the remember-window-size flag.
RememberWindowSizeRequest ==
    /\ nOps < MaxWindowOps
    /\ \E value \in {Bool(TRUE), Bool(FALSE)} :
          SaveSetting(<<"behavior", "rememberWindowSize">>, value)
    /\ UNCHANGED <<rVars, noteVars, themeVars, appVars>>

NextWindow ==
    \/ Construct
    \/ SplashComplete
    \/ closeSplashAndShowMain
    \/ ReadyToShow
    \/ Resize
    \/ Move
    \/ AlwaysOnTopRequest
    \/ RememberWindowSizeRequest

SpecWindow == Init /\ [][NextWindow]_vars

\* -------------------------------------------------------- mutations
\* obj[k] = (the subtree sub, whose first entry is the one at k): an existing
\* key keeps its place and loses its old subtree, a new key goes last.
assignSection(d, sub) ==
    LET k == sub[1].p
    IN  IF k \in PathsOf(d)
        THEN LET i == IndexOf(d, k)
             IN  SubSeq(d, 1, i - 1) \o sub
                 \o SelectSeq(SubSeq(d, i + 1, Len(d)), LAMBDA e : ~IsPrefix(k, e.p))
        ELSE d \o sub

\* {...d, ...n} from the i-th own key of n on: each top-level key of n
\* replaces the whole value d has for it.
RECURSIVE spread(_, _, _)
spread(d, n, i) ==
    LET keys == SelectSeq(n, LAMBDA e : Len(e.p) = 1)
    IN  IF i > Len(keys) THEN d
        ELSE spread(assignSection(d, SelectSeq(n, LAMBDA e : IsPrefix(keys[i].p, e.p))),
                    n, i + 1)

\* save-settings that writes the file before it merges the update.
SaveSettingsWriteFirst(newSettings) ==
    /\ hostPc = "ready"
    /\ nOps' = nOps + 1
    /\ settings' = spread(settings, newSettings, 1)
    /\ \E outcome \in WriteOutcomes :
          /\ files' = saveSettings(files, settings, outcome)
          /\ lastReq' = Req("save-settings", << >>, Undefined, "ok", outcome = "written",
                            newSettings, "")
    /\ duringDialog' = (duringDialog \/ exportDialog)
    /\ UNCHANGED <<hostPc, window, splashWindow, tray, autoLaunch, globalShortcuts,
                   osShortcuts, takenByOthers, splashTimers, exportDialog>>

\* ipcMain.handle('save-settings'); the request record keeps the update.
SaveSettings(newSettings) ==
    /\ hostPc = "ready"
    /\ nOps' = nOps + 1
    /\ settings' = spread(settings, newSettings, 1)
    /\ \E outcome \in WriteOutcomes :
          /\ files' = saveSettings(files, settings', outcome)
          /\ lastReq' = Req("save-settings", << >>, Undefined, "ok", outcome = "written",
                            newSettings, "")
    /\ duringDialog' = (duringDialog \/ exportDialog)
    /\ UNCHANGED <<hostPc, window, splashWindow, tray, autoLaunch, globalShortcuts,
                   osShortcuts, takenByOthers, splashTimers, exportDialog>>

\* Partial updates: {"appearance": {"theme": "light"}} and
\* {"behavior": {"alwaysOnTop": true}, "locale": "en"}.
SettingsUpdates ==
    { << Entry(<< >>, Obj), Entry(<<"appearance">>, Obj),
         Entry(<<"appearance", "theme">>, Str("light")) >>,
      << Entry(<< >>, Obj), Entry(<<"behavior">>, Obj),
         Entry(<<"behavior", "alwaysOnTop">>, Bool(TRUE)),
         Entry(<<"locale">>, Str("en")) >> }

SaveSettingsRequest ==
    /\ nOps < MaxMutations
    /\ \E newSettings \in SettingsUpdates : SaveSettings(newSettings)
    /\ UNCHANGED <<rVars, noteVars, themeVars, appVars>>

MutationKeys == { <<"appearance", "theme">>, <<"appearance", "theme", "variant">> }

SaveSettingMutation ==
    /\ nOps < MaxMutations
    /\ \E key \in MutationKeys : SaveSetting(key, Str("light"))
    /\ UNCHANGED <<rVars, noteVars, themeVars, appVars>>

RestoreMutation ==
    /\ nOps < MaxMutations
    /\ RestoreDefaultSettings
    /\ UNCHANGED <<rVars, noteVars, themeVars, appVars>>

GeometryMutation ==
    /\ nOps < MaxMutations
    /\ \/ geometryEvent("resize", Bounds("40", "60", "1024", "768"), "width", "height")
       \/ geometryEvent("move", Bounds("40", "60", "1024", "768"), "x", "y")
    /\ UNCHANGED <<rVars, noteVars, themeVars, appVars>>

\* The handlers that change the settings document, interleaved with each
\* other and with an export that waits at its dialog.
NextMutations ==
    \/ Construct
    \/ SplashComplete
    \/ closeSplashAndShowMain
    \/ SaveSettingMutation
    \/ SaveSettingsRequest
    \/ RestoreMutation
    \/ GeometryMutation
    \/ ExportSettingsRequest
    \/ ExportSettingsReply

SpecMutations == Init /\ [][NextMutations]_vars

\* ---------------------------------------------------- preload bridge
\* The functions contextBridge.exposeInMainWorld('electronAPI', {...}) exposes,
\* each with the channel it invokes or listens on.  The second
\* exposeInMainWorld call for the same key does not add removeAllListeners to
\* this object.
electronAPI ==
    [minimizeWindow |-> "window-minimize",
     maximizeWindow |-> "window-maximize",
     closeWindow |-> "window-close",
     isMaximized |-> "window-is-maximized",
     onWindowMaximized |-> "window-maximized",
     onWindowUnmaximized |-> "window-unmaximized",
     onNavigateToPage |-> "navigate-to-page",
     getSettings |-> "get-settings",
     saveSetting |-> "save-setting",
     restoreDefaultSettings |-> "restore-default-settings",
     exportSettings |-> "export-settings",
     updateGlobalShortcuts |-> "update-global-shortcuts",
     splashComplete |-> "splash-complete"]

\* The channels setupEventHandlers() registers with ipcMain.handle.
HostHandlers ==
    { "window-minimize", "window-maximize", "window-close", "window-is-maximized",
      "get-settings", "save-settings", "splash-complete", "save-setting",
      "navigate-to-page", "restore-default-settings", "export-settings",
      "update-global-shortcuts" }

\* The channels the host sends on.
HostPushes == { "window-maximized", "window-unmaximized", "navigate-to-page" }

\* The bridge functions init() calls, in the order it calls them.
InitCalls ==
    << "getSettings", "onWindowMaximized", "onWindowUnmaximized", "onNavigateToPage",
       "isWindowMaximized" >>

\* The bridge functions the main page and the splash page call.
PageCalls ==
    { InitCalls[i] : i \in DOMAIN InitCalls } \cup
    { "minimizeWindow", "maximizeWindow", "closeWindow", "saveSetting",
      "restoreDefaultSettings", "exportSettings", "updateGlobalShortcuts",
      "splashComplete" }

\* window.electronAPI.<name>(...) succeeds: the bridge has the function and
\* the host handles or sends on its channel.
callable(api, name) ==
    /\ name \in DOMAIN api
    /\ api[name] \in HostHandlers \cup HostPushes

\* The first call of init() that throws, "" if none does.
firstFailure(api) ==
    IF \A i \in DOMAIN InitCalls : callable(api, InitCalls[i]) THEN ""
    ELSE InitCalls[CHOOSE i \in DOMAIN InitCalls :
                      /\ ~callable(api, InitCalls[i])
                      /\ \A j \in 1..(i - 1) : callable(api, InitCalls[j])]

\* --------------------------------------------------------- renderer
\* The settings page of the main window: edits collect in pendingSettings,
\* the Save button sends them one save-setting request at a time.
RendererEdits ==
    { [k |-> <<"appearance", "theme">>, v |-> Str("light")],
      [k |-> <<"advanced", "keyboardShortcuts", "close">>, v |-> Str("Ctrl+W")],
      [k |-> <<"advanced", "keyboardShortcuts", "minimize">>, v |-> Str("Ctrl+Q")] }

Invoke(op, key, value) == [op |-> op, key |-> key, value |-> value]
Settled(op) == Invoke(op, << >>, Undefined)

\* The options of the theme selector of the settings page.
ThemeOptions == {"dark", "light", "auto"}

\* this.settings.appearance?.theme || 'dark'
savedTheme(doc) ==
    LET theme == Read(doc, <<"appearance", "theme">>)
    IN  IF Truthy(theme) THEN theme ELSE Str("dark")

\* themeSelect.value = v: a value that is not one of the options selects none.
selectValue(v) == IF v.t = "string" /\ v.s \in ThemeOptions THEN v.s ELSE ""

\* applyTheme(theme) that resolves auto to the theme the page shows already.
applyThemeKeepsCurrent(theme, dark) ==
    IF theme = Str("auto") THEN dataTheme ELSE theme.s

\* applyTheme(theme): the data-theme attribute it sets; auto is resolved
\* against matchMedia('(prefers-color-scheme: dark)').matches.
applyTheme(theme, dark) ==
    IF theme = Str("auto") THEN (IF dark THEN "dark" ELSE "light") ELSE theme.s

\* AppRenderer.init(): this.settings = await getSettings(), in the page the
\* main window has loaded; setupThemeSelector() shows and applies the saved
\* theme and attaches the listeners; `await this.updateMaximizeButton()`
\* comes after the setup calls and before the saved appearance is applied, and
\* init() ends there when the bridge function it calls is missing.
RendererInit ==
    /\ rPc = "none"
    /\ window.exists
    /\ nOps < MaxRendererOps
    /\ GetSettings
    /\ rSettings' = settings
    /\ rPc' = "idle"
    /\ themeSelect' = selectValue(savedTheme(settings))
    /\ dataTheme' = applyTheme(savedTheme(settings), prefersDark)
    /\ UNCHANGED <<pendingSettings, hasUnsavedChanges, batch, bIdx, ipc,
                   saveOutcome, updateRequests, nEdits, exportVars>>
    /\ initError' = firstFailure(electronAPI)
    /\ isMaximized' = IF firstFailure(electronAPI) = "" THEN window.maximized
                      ELSE isMaximized
    /\ UNCHANGED <<noteVars, prefersDark, styleLog, lifeVars>>

\* this.pendingSettings[key] = value: an existing key keeps its place.
setPending(pending, key, value) ==
    IF \E i \in DOMAIN pending : pending[i].k = key
    THEN [i \in DOMAIN pending |->
             IF pending[i].k = key THEN [k |-> key, v |-> value] ELSE pending[i]]
    ELSE Append(pending, [k |-> key, v |-> value])

updatePendingSetting(key, value) ==
    /\ rPc # "none"
    /\ nEdits < MaxEdits
    /\ nEdits' = nEdits + 1
    /\ pendingSettings' = setPending(pendingSettings, key, value)
    /\ hasUnsavedChanges' = TRUE
    /\ UNCHANGED <<rPc, rSettings, batch, bIdx, ipc, saveOutcome, updateRequests,
                   exportVars>>
    /\ UNCHANGED <<hostVars, takenByOthers, noteVars, appVars>>

\* The change listener of a control of the settings page; the one of the
\* theme selector applies the selected theme before it records the edit.
changeSetting(key, value) ==
    /\ updatePendingSetting(key, value)
    /\ IF key = <<"appearance", "theme">>
       THEN /\ themeSelect' = value.s
            /\ dataTheme' = applyTheme(value, prefersDark)
       ELSE UNCHANGED <<themeSelect, dataTheme>>
    /\ UNCHANGED prefersDark

UserEdits == \E e \in RendererEdits : changeSetting(e.k, e.v)

\* The second loop of saveAllPendingSettings, from entry i on: each pending
\* entry is written into this.settings along its path.
RECURSIVE updateLocal(_, _, _)
updateLocal(d, pending, i) ==
    IF i > Len(pending) THEN [doc |-> d, threw |-> FALSE]
    ELSE LET r == setPath(d, pending[i].k, pending[i].v)
         IN  IF r.threw THEN r ELSE updateLocal(r.doc, pending, i + 1)

\* Does some key of the pending settings start with advanced.keyboardShortcuts?
shortcutsChanged(pending) ==
    \E i \in DOMAIN pending : IsPrefix(keyboardShortcuts, pending[i].k)

\* The click handler from the end of the first loop of saveAllPendingSettings
\* to its next await or its end: the local update, the clearing of
\* pendingSettings, then the test that decides on update-global-shortcuts;
\* sent is the number of update-global-shortcuts requests of this click so far.
afterSaves(sent) ==
    LET local == updateLocal(rSettings, pendingSettings, 1)
        cleared == << >>
    IN  /\ rSettings' = local.doc
        /\ IF local.threw
           THEN /\ saveOutcome' = "failed"
                /\ rPc' = "idle"
                /\ ipc' = Settled("none")
                /\ updateRequests' = sent
                /\ UNCHANGED <<pendingSettings, hasUnsavedChanges>>
           ELSE /\ pendingSettings' = cleared
                /\ hasUnsavedChanges' = FALSE
                /\ IF shortcutsChanged(cleared)
                   THEN /\ ipc' = Settled("update-global-shortcuts")
                        /\ updateRequests' = sent + 1
                        /\ rPc' = "updating"
                        /\ UNCHANGED saveOutcome
                   ELSE /\ ipc' = Settled("none")
                        /\ saveOutcome' = "saved"
                        /\ rPc' = "idle"
                        /\ updateRequests' = sent

\* Click on the Save button, up to the first await.
ClickSave ==
    /\ rPc = "idle"
    /\ nOps + Len(pendingSettings) + 1 <= MaxRendererOps
    /\ batch' = pendingSettings
    /\ IF pendingSettings = << >>
       THEN /\ afterSaves(0)
            /\ bIdx' = 0
       ELSE /\ ipc' = Invoke("save-setting", pendingSettings[1].k, pendingSettings[1].v)
            /\ bIdx' = 1
            /\ rPc' = "saving"
            /\ saveOutcome' = "none"
            /\ updateRequests' = 0
            /\ UNCHANGED <<rSettings, pendingSettings, hasUnsavedChanges>>
    /\ UNCHANGED <<nEdits, exportVars>>
    /\ UNCHANGED <<hostVars, takenByOthers, noteVars, themeVars, appVars>>

\* The host handles the invoke in flight and settles its promise.
HandleInvoke ==
    /\ ipc.op \in {"save-setting", "update-global-shortcuts"}
    /\ IF ipc.op = "save-setting"
       THEN SaveSetting(ipc.key, ipc.value)
       ELSE UpdateGlobalShortcuts
    /\ ipc' = Settled(IF lastReq'.status = "threw" THEN "rejected" ELSE "resolved")
    /\ UNCHANGED <<rPc, rSettings, pendingSettings, hasUnsavedChanges, batch, bIdx,
                   saveOutcome, updateRequests, nEdits, exportVars>>
    /\ UNCHANGED <<noteVars, themeVars, appVars>>

\* The click handler resumes after an await.
ResumeSave ==
    /\ ipc.op \in {"resolved", "rejected"}
    /\ IF ipc.op = "rejected"
       THEN /\ saveOutcome' = "failed"
            /\ rPc' = "idle"
            /\ ipc' = Settled("none")
            /\ UNCHANGED <<rSettings, pendingSettings, hasUnsavedChanges, bIdx,
                           updateRequests>>
       ELSE IF rPc = "updating"
       THEN /\ saveOutcome' = "saved"
            /\ rPc' = "idle"
            /\ ipc' = Settled("none")
            /\ UNCHANGED <<rSettings, pendingSettings, hasUnsavedChanges, bIdx,
                           updateRequests>>
       ELSE IF bIdx < Len(batch)
       THEN /\ bIdx' = bIdx + 1
            /\ ipc' = Invoke("save-setting", batch[bIdx + 1].k, batch[bIdx + 1].v)
            /\ UNCHANGED <<rPc, rSettings, pendingSettings, hasUnsavedChanges,
                           saveOutcome, updateRequests>>
       ELSE /\ afterSaves(updateRequests)
            /\ UNCHANGED bIdx
    /\ UNCHANGED <<batch, nEdits, exportVars>>
    /\ UNCHANGED <<hostVars, takenByOthers, noteVars, themeVars, appVars>>

NextRenderer ==
    \/ Construct
    \/ SplashComplete
    \/ closeSplashAndShowMain
    \/ RendererInit
    \/ UserEdits
    \/ ClickSave
    \/ HandleInvoke
    \/ ResumeSave

SpecRenderer == Init /\ [][NextRenderer]_vars

\* ------------------------------------------------------ export click
\* Click on the Export Settings button, up to `await exportSettings()`.
ClickExport ==
    /\ rPc # "none"
    /\ exportIpc.state = "idle"
    /\ nOps < MaxRendererOps
    /\ exportIpc' = [state |-> "sent", result |-> NoDoc]
    /\ UNCHANGED <<rPc, rSettings, pendingSettings, hasUnsavedChanges, batch, bIdx, ipc,
                   saveOutcome, updateRequests, nEdits, exportNotice>>
    /\ UNCHANGED <<hostVars, takenByOthers, noteVars, themeVars, appVars>>

\* The host takes the export-settings invoke and opens the save dialog.
HandleExport ==
    /\ exportIpc.state = "sent"
    /\ ExportSettingsBegin
    /\ exportIpc' = [exportIpc EXCEPT !.state = "dialog"]
    /\ UNCHANGED <<rPc, rSettings, pendingSettings, hasUnsavedChanges, batch, bIdx, ipc,
                   saveOutcome, updateRequests, nEdits, exportNotice>>
    /\ UNCHANGED <<noteVars, themeVars, appVars>>

\* The dialog resolves and the handler returns its result to the page.
ExportReturns ==
    /\ exportIpc.state = "dialog"
    /\ ExportSettingsEnd
    /\ exportIpc' = [state |-> "resolved", result |-> lastReq'.ret]
    /\ UNCHANGED <<rPc, rSettings, pendingSettings, hasUnsavedChanges, batch, bIdx, ipc,
                   saveOutcome, updateRequests, nEdits, exportNotice>>
    /\ UNCHANGED <<noteVars, themeVars, appVars>>

Notice(text, arg, type) == [text |-> text, arg |-> arg, type |-> type]

\* An export click that tests result.success only.
exportNotificationSuccessOnly(result) ==
    IF Truthy(Read(result, <<"success">>))
    THEN Notice("Settings exported to ", Read(result, <<"path">>).s, "primary")
    ELSE Notice("Export failed: ", Read(result, <<"error">>).s, "error")

\* The notification the export click shows for a result.
exportNotification(result) ==
    IF Truthy(Read(result, <<"success">>))
    THEN Notice("Settings exported to ", Read(result, <<"path">>).s, "primary")
    ELSE IF Truthy(Read(result, <<"canceled">>))
    THEN Notice("Export canceled", "", "info")
    ELSE Notice("Export failed: ", Read(result, <<"error">>).s, "error")

\* The export click resumes with the result, or in its catch block.
ResumeExport ==
    /\ exportIpc.state \in {"resolved", "rejected"}
    /\ exportNotice' = IF exportIpc.state = "rejected"
                       THEN Notice("Failed to export settings", "", "error")
                       ELSE exportNotification(exportIpc.result)
    /\ exportIpc' = [exportIpc EXCEPT !.state = "idle"]
    /\ UNCHANGED <<rPc, rSettings, pendingSettings, hasUnsavedChanges, batch, bIdx, ipc,
                   saveOutcome, updateRequests, nEdits>>
    /\ UNCHANGED <<hostVars, takenByOthers, noteVars, themeVars, appVars>>

\* The settings page with its export button; other windows' requests change
\* the document while the export is under way.
NextExportPage ==
    \/ Construct
    \/ SplashComplete
    \/ closeSplashAndShowMain
    \/ RendererInit
    \/ SaveSettingDuringExport
    \/ ClickExport
    \/ HandleExport
    \/ ExportReturns
    \/ ResumeExport

SpecExportPage == Init /\ [][NextExportPage]_vars

\* ------------------------------------------------------------- theme
\* The user picks an option of the theme selector.
SelectTheme == \E t \in ThemeOptions : changeSetting(<<"appearance", "theme">>, Str(t))

\* The OS colour-scheme preference changes: the change listener of the media
\* query, attached by setupThemeSelector(), tests the theme of this.settings.
ColorSchemeChange ==
    /\ prefersDark' = ~prefersDark
    /\ IF rPc # "none" /\ savedTheme(rSettings) = Str("auto")
       THEN dataTheme' = applyTheme(Str("auto"), prefersDark')
       ELSE UNCHANGED dataTheme
    /\ UNCHANGED <<themeSelect, noteVars, hostVars, takenByOthers, rVars, appVars>>

NextTheme ==
    \/ Construct
    \/ SplashComplete
    \/ closeSplashAndShowMain
    \/ RendererInit
    \/ UserEdits
    \/ SelectTheme
    \/ ClickSave
    \/ HandleInvoke
    \/ ResumeSave
    \/ ColorSchemeChange

SpecTheme == Init /\ [][NextTheme]_vars

\* -------------------------------------------------------- appearance
\* applyFont(fontFamily): the value of --font-family.
applyFont(fontFamily) ==
    IF fontFamily = Str("inconsolata") THEN "Inconsolata, monospace"
    ELSE "Smooch Sans, sans-serif"

\* applyFontSize(fontSize): the value of --font-scale.
applyFontSize(fontSize) ==
    IF fontSize = Str("small") THEN "0.875"
    ELSE IF fontSize = Str("large") THEN "1.125"
    ELSE "1"

\* applyButtonStyle(style): the titlebar buttons end with or without the
\* square-style class.
applyButtonStyle(style) == IF style = Str("square") THEN "square-style" ELSE ""

\* The values the settings page offers for each appearance setting.
AppearanceInputs ==
    [theme : {Str(t) : t \in ThemeOptions}, fontFamily : {Str("inconsolata")},
     fontSize : {Str("small")}, titlebarButtonStyle : {Str("square")}]
    \cup [theme : {Str("dark")}, fontFamily : {Str("smooch-sans")},
          fontSize : {Str("medium"), Str("large")},
          titlebarButtonStyle : {Str("round")}]

\* The four apply functions run on one set of appearance values, as in
\* updateAllSettingsUI(); the palette set by applyTheme is a function of
\* data-theme.
ApplyAppearance ==
    \E in \in AppearanceInputs :
       /\ rPc # "none"
       /\ dataTheme' = applyTheme(in.theme, prefersDark)
       /\ styleLog' = styleLog \cup
              { [input |-> in, dark |-> prefersDark,
                 style |-> [theme |-> applyTheme(in.theme, prefersDark),
                            fontFamily |-> applyFont(in.fontFamily),
                            fontScale |-> applyFontSize(in.fontSize),
                            buttonClass |-> applyButtonStyle(in.titlebarButtonStyle)]] }
       /\ UNCHANGED <<themeSelect, prefersDark, noteVars, hostVars, takenByOthers, rVars>>
       /\ UNCHANGED <<lifeVars, pageVars>>

NextAppearance ==
    \/ Construct
    \/ SplashComplete
    \/ closeSplashAndShowMain
    \/ RendererInit
    \/ ApplyAppearance
    \/ ColorSchemeChange

SpecAppearance == Init /\ [][NextAppearance]_vars

\* ----------------------------------------------------- notifications
\* SplashScreen.completeLoading(): sets the 500 ms timer that calls
\* window.electronAPI.splashComplete().
completeLoading ==
    /\ splashWindow
    /\ splashPage.complete = "unset"
    /\ splashPage' = [splashPage EXCEPT !.complete = "pending"]
    /\ UNCHANGED <<hostVars, takenByOthers, rVars, pushed, themeVars, appVars>>

\* A timer of the splash page fires and calls splashComplete(): one
\* splash-complete signal, on which the host's handler sets its 100 ms timer.
\* The timers of a destroyed window never fire.
splashComplete(timer) ==
    /\ splashWindow
    /\ splashPage[timer] = "pending"
    /\ splashPage' = [splashPage EXCEPT ![timer] = "fired", !.signals = @ + 1]
    /\ splashTimers' = IF hostPc = "ready" THEN splashTimers + 1 ELSE splashTimers
    /\ UNCHANGED <<hostPc, settings, files, window, splashWindow, tray, autoLaunch,
                   globalShortcuts, osShortcuts, takenByOthers, exportDialog,
                   duringDialog, lastReq, nOps>>
    /\ UNCHANGED <<rVars, pushed, themeVars, appVars>>

CompleteTimer == splashComplete("complete")
FallbackTimer == splashComplete("fallback")

\* One message on channel ch from each of n listeners.
RECURSIVE sendEach(_, _)
sendEach(ch, n) == IF n = 0 THEN << >> ELSE Append(sendEach(ch, n - 1), ch)

Sent(event, channels) == [event |-> event, channels |-> channels]

\* The main window emits maximize or unmaximize: every listener attached to
\* it sends its message to the page.
windowEvent(event, ch) ==
    /\ window.exists
    /\ window.maximized = (event = "unmaximize")
    /\ window' = [window EXCEPT !.maximized = (event = "maximize")]
    /\ pushed' = Sent(event, sendEach(ch, window.onMaximize))
    /\ isMaximized' = IF rPc # "none" /\ window.onMaximize > 0
                      THEN event = "maximize"
                      ELSE isMaximized
    /\ UNCHANGED <<hostPc, settings, files, splashWindow, tray, autoLaunch,
                   globalShortcuts, osShortcuts, splashTimers, exportDialog,
                   duringDialog, lastReq, nOps>>
    /\ UNCHANGED <<takenByOthers, rVars, splashPage, themeVars, styleLog, lifeVars,
                   initError>>

Maximize == windowEvent("maximize", "window-maximized")
Unmaximize == windowEvent("unmaximize", "window-unmaximized")

\* ipcMain.handle('navigate-to-page')
NavigateToPage ==
    /\ hostPc = "ready"
    /\ pushed' = Sent("navigate-to-page",
                    IF window.exists THEN <<"navigate-to-page">> ELSE << >>)
    /\ UNCHANGED <<hostVars, takenByOthers, rVars, splashPage, themeVars, appVars>>

NextNotifications ==
    \/ Construct
    \/ completeLoading
    \/ CompleteTimer
    \/ FallbackTimer
    \/ closeSplashAndShowMain
    \/ Maximize
    \/ Unmaximize
    \/ NavigateToPage

SpecNotifications == Init /\ [][NextNotifications]_vars

\* ----------------------------------------------------- window controls
behaviorFlag(name) == Truthy(Read(settings, <<"behavior", name>>))

\* if (!this.tray) this.createTray()
ensureTray(t) == IF t = 0 THEN 1 ELSE t

Control(op, status) == lastReq' = Req(op, << >>, Undefined, status, FALSE, NoDoc, "")

controlFrame ==
    /\ UNCHANGED <<settings, files, autoLaunch, globalShortcuts, osShortcuts,
                   takenByOthers, exportDialog, duringDialog, nOps>>
    /\ UNCHANGED <<rVars, noteVars, themeVars, styleLog, isForceQuitting,
                   mainWindows, splashDestroys, pageVars>>

\* The application quits: its windows and timers are gone.
exit ==
    /\ hostPc' = "quit"
    /\ window' = NoWindow
    /\ splashWindow' = FALSE
    /\ splashTimers' = 0

\* if (!this.tray) this.createTray(); this.window.hide()
hideToTray ==
    /\ window' = [window EXCEPT !.visible = FALSE]
    /\ tray' = ensureTray(tray)
    /\ UNCHANGED <<hostPc, splashWindow, splashTimers, platform>>

\* The 'close' listener that always lets the window close.
closeWindowNoVeto(op) ==
    /\ Control(op, "closed")
    /\ tray' = tray
    /\ window' = NoWindow
    /\ UNCHANGED <<hostPc, splashWindow, splashTimers, platform>>

\* this.window.close(), or the user closes the window: the 'close' listener
\* prevents the close and hides the window when closeToTray is set; otherwise
\* the window is destroyed, 'closed' sets this.window = null and, no window
\* being left, 'window-all-closed' calls app.quit() except on darwin.
closeWindow(op) ==
    IF behaviorFlag("closeToTray") /\ ~isForceQuitting
    THEN hideToTray /\ Control(op, "hidden")
    ELSE /\ Control(op, "closed")
         /\ tray' = tray
         /\ IF splashWindow
            THEN /\ window' = NoWindow
                 /\ UNCHANGED <<hostPc, splashWindow, splashTimers, platform>>
            ELSE \E pf \in (IF platform = "any" THEN {"darwin", "win32"}
                            ELSE {platform}) :
                    /\ platform' = pf
                    /\ IF pf = "darwin"
                       THEN /\ window' = NoWindow
                            /\ UNCHANGED <<hostPc, splashWindow, splashTimers>>
                       ELSE exit

\* this.window.minimize(), or the user minimizes the window: the window is
\* minimized, then its 'minimize' listener hides it when minimizeToTray is set.
minimizeWindow(op) ==
    /\ IF behaviorFlag("minimizeToTray")
       THEN /\ window' = [window EXCEPT !.minimized = TRUE, !.visible = FALSE]
            /\ tray' = ensureTray(tray)
            /\ Control(op, "hidden")
       ELSE /\ window' = [window EXCEPT !.minimized = TRUE]
            /\ tray' = tray
            /\ Control(op, "minimized")
    /\ UNCHANGED <<hostPc, splashWindow, splashTimers, platform>>

\* ipcMain.handle('window-minimize')
WindowMinimizeRequest ==
    /\ hostPc = "ready"
    /\ window.exists
    /\ IF behaviorFlag("minimizeToTray")
       THEN hideToTray /\ Control("window-minimize", "hidden")
       ELSE minimizeWindow("window-minimize")
    /\ controlFrame

\* ipcMain.handle('window-close')
WindowCloseRequest ==
    /\ hostPc = "ready"
    /\ window.exists
    /\ IF behaviorFlag("closeToTray")
       THEN hideToTray /\ Control("window-close", "hidden")
       ELSE closeWindow("window-close")
    /\ controlFrame

\* The callbacks registerGlobalShortcuts gives to the close and minimize
\* accelerators; the OS calls them while the accelerator is registered.
CloseShortcut ==
    /\ hostPc = "ready"
    /\ "close" \in DOMAIN globalShortcuts
    /\ window.exists
    /\ closeWindow("close-shortcut")
    /\ controlFrame

MinimizeShortcut ==
    /\ hostPc = "ready"
    /\ "minimize" \in DOMAIN globalShortcuts
    /\ window.exists
    /\ minimizeWindow("minimize-shortcut")
    /\ controlFrame

\* The user closes or minimizes the window with the controls of the OS.
OsClose ==
    /\ window.exists
    /\ window.visible
    /\ closeWindow("close")
    /\ controlFrame

OsMinimize ==
    /\ window.exists
    /\ window.visible
    /\ ~window.minimized
    /\ minimizeWindow("minimize")
    /\ controlFrame

\* The CLOSE item of the menu updateTrayMenu() builds: app.quit().  Electron
\* asks every window to close and abandons the quit when a 'close' listener
\* prevents it.
TrayQuit ==
    /\ hostPc = "ready"
    /\ tray > 0
    /\ IF window.exists /\ behaviorFlag("closeToTray") /\ ~isForceQuitting
       THEN hideToTray /\ Control("tray-quit", "vetoed")
       ELSE /\ exit
            /\ UNCHANGED <<tray, platform>>
            /\ Control("tray-quit", "quit")
    /\ controlFrame

TrayKeys == { <<"behavior", "closeToTray">>, <<"behavior", "minimizeToTray">>,
              <<"behavior", "startMinimizedToTray">> }

\* save-setting requests for the tray flags.
TraySettingRequest ==
    /\ nOps < MaxTrayOps
    /\ \E key \in TrayKeys : SaveSetting(key, Bool(TRUE))
    /\ UNCHANGED <<rVars, noteVars, themeVars, appVars>>

NextTray ==
    \/ Construct
    \/ TraySettingRequest
    \/ SplashComplete
    \/ closeSplashAndShowMain
    \/ ReadyToShow
    \/ WindowMinimizeRequest
    \/ WindowCloseRequest
    \/ CloseShortcut
    \/ MinimizeShortcut
    \/ OsClose
    \/ OsMinimize
    \/ TrayQuit

SpecTray == Init /\ [][NextTray]_vars

\* The timers and the ready-to-show event of the host do fire.
SpecTrayLive ==
    SpecTray /\ WF_vars(closeSplashAndShowMain) /\ WF_vars(ReadyToShow)

\* ---------------------------------------------------- maximized state
\* Click on the maximize button: await maximizeWindow(), whose handler
\* toggles the window and so emits maximize or unmaximize, then
\* await this.updateMaximizeButton().
ClickMaximize ==
    /\ rPc # "none"
    /\ hostPc = "ready"
    /\ window.exists
    /\ LET event == IF window.maximized THEN "unmaximize" ELSE "maximize"
           ch == IF window.maximized THEN "window-unmaximized" ELSE "window-maximized"
       IN  /\ window' = [window EXCEPT !.maximized = ~window.maximized]
           /\ pushed' = Sent(event, sendEach(ch, window.onMaximize))
           /\ isMaximized' =
                 IF callable(electronAPI, "isWindowMaximized") \/ window.onMaximize > 0
                 THEN ~window.maximized
                 ELSE isMaximized
    /\ Control("window-maximize", "ok")
    /\ UNCHANGED <<hostPc, settings, files, splashWindow, tray, autoLaunch,
                   globalShortcuts, osShortcuts, splashTimers, exportDialog,
                   duringDialog, nOps>>
    /\ UNCHANGED <<takenByOthers, rVars, splashPage, themeVars, styleLog, lifeVars,
                   initError>>

NextMaximize ==
    \/ Construct
    \/ SplashComplete
    \/ closeSplashAndShowMain
    \/ RendererInit
    \/ Maximize
    \/ Unmaximize
    \/ ClickMaximize
    \/ NavigateToPage

SpecMaximize == Init /\ [][NextMaximize]_vars

\* The host's timer fires and the page that is loaded runs init().
SpecMaximizeLive ==
    SpecMaximize /\ WF_vars(closeSplashAndShowMain) /\ WF_vars(RendererInit)

\* ------------------------------------------------------- splash run
\* The splash page's run against the host, with the user closing the main
\* window.
NextSplash ==
    \/ Construct
    \/ completeLoading
    \/ CompleteTimer
    \/ FallbackTimer
    \/ closeSplashAndShowMain
    \/ ReadyToShow
    \/ OsClose

SpecSplash == Init /\ [][NextSplash]_vars

\* The constructor runs, and timers that are set do fire: the fallback timer
\* of the splash page and the 100 ms timer of the host.  The loading
\* sequence of the splash page may stall.
SpecSplashLive ==
    /\ SpecSplash
    /\ WF_vars(Construct)
    /\ WF_vars(FallbackTimer)
    /\ WF_vars(closeSplashAndShowMain)

\* ---------------------------------------------------- always on top
\* The requests that can change behavior.alwaysOnTop, around the creation of
\* the main window.
NextAlwaysOnTop ==
    \/ Construct
    \/ SplashComplete
    \/ closeSplashAndShowMain
    \/ AlwaysOnTopRequest
    \/ SaveSettingsRequest
    \/ RestoreMutation

SpecAlwaysOnTop == Init /\ [][NextAlwaysOnTop]_vars

\* ------------------------------------------------------------ claims
\* C1: a save-setting(p, v) request followed by a get-settings request returns
\* a document in which walking p segment by segment yields v, for every
\* dot-path p and value v and from every reachable document.
C1_GetAfterSaveYieldsValue ==
    [][(lastReq.op = "save-setting" /\ lastReq'.op = "get-settings")
        => Read(lastReq'.ret, lastReq.key) = lastReq.value]_vars

\* C2: whenever save-setting or restore-default-settings has acknowledged, the
\* settings file parses to a document equal to the in-memory document.
WriteThrough ==
    /\ files[settingsPath].state = "text"
    /\ DeepEqual(JSONParse(files[settingsPath].text), settings)

C2_WriteThrough ==
    (lastReq.op \in {"save-setting", "restore-default-settings"} /\ lastReq.status = "ok")
        => WriteThrough

\* C2 as amended: the file equals the in-memory document whenever the handler
\* has acknowledged and its disk write did not fail.
C2_WriteThroughWhenWritten ==
    (/\ lastReq.op \in {"save-setting", "restore-default-settings"}
     /\ lastReq.status = "ok"
     /\ lastReq.written)
        => WriteThrough

C2_Witness ==
    /\ lastReq.op = "save-setting"
    /\ lastReq.key = <<"appearance", "theme">>
    /\ lastReq.value = Str("light")
    /\ lastReq.written
    /\ nOps = 1
    /\ Read(settings, <<"appearance", "fontFamily">>) = Str("smooch-sans")
    /\ Read(JSONParse(files[settingsPath].text), <<"appearance", "theme">>) = Str("light")

\* C3: loading when the settings file is missing or corrupt yields a document
\* equal, path for path, to the one restore-default-settings installs.
C3_LoadDefaultsEqualRestoreDefaults ==
    (hostPc = "ready" /\ nOps = 0 /\ files[settingsPath].state # "text")
        => DeepEqual(settings, RestoreDefaults)

\* C4: restore-default-settings leaves the returned document, the in-memory
\* document and the file content all equal to the fixed default document,
\* whatever the state before.
C4_RestoreInstallsDefaultsEverywhere ==
    lastReq.op = "restore-default-settings"
        => /\ lastReq.ret = RestoreDefaults
           /\ settings = RestoreDefaults
           /\ files[settingsPath] = TextFile(JSONStringify(RestoreDefaults))

\* C4 as amended: the returned and the in-memory document always equal the
\* fixed default document, and the file does when the disk write did not fail.
C4_RestoreInstallsDefaults ==
    lastReq.op = "restore-default-settings"
        => /\ lastReq.ret = RestoreDefaults
           /\ settings = RestoreDefaults
           /\ lastReq.written
                => /\ files[settingsPath].state = "text"
                   /\ JSONParse(files[settingsPath].text) = RestoreDefaults

C4_Witness ==
    /\ lastReq.op = "restore-default-settings"
    /\ lastReq.written
    /\ nOps = 2
    /\ settings = RestoreDefaults
    /\ autoLaunch

\* C5: constructing the host store never throws, whatever the settings file
\* holds, and a missing or unparseable file gives the hardcoded defaults.
C5_ConstructNeverThrows ==
    /\ hostPc # "crashed"
    /\ (hostPc = "ready" /\ nOps = 0 /\ files[settingsPath].state # "text")
          => settings = LoadDefaults

\* C6: once a file that parses to a settings object is loaded, reading the
\* settings yields a value for every recognised path of the schema (the stored
\* one or, for a path the document lacks, a built-in default).
C6_EveryRecognisedPathHasValue ==
    (hostPc = "ready" /\ Read(settings, << >>) = Obj)
        => \A p \in RecognisedPaths : readSetting(settings, p) # Undefined

\* C7: when save-setting(p, v) returns, every proper prefix of p addresses a
\* mapping and p addresses v, whatever was absent at those prefixes before.
C7_SaveSettingCreatesLevels ==
    (lastReq.op = "save-setting" /\ lastReq.status = "ok")
        => /\ \A n \in 0..(Len(lastReq.key) - 1) :
                 Read(settings, SubSeq(lastReq.key, 1, n)) = Obj
           /\ Read(settings, lastReq.key) = lastReq.value

C7_Witness ==
    /\ lastReq.op = "save-setting"
    /\ lastReq.status = "ok"
    /\ lastReq.key = <<"advanced", "keyboardShortcuts", "close">>
    /\ nOps = 1
    /\ Read(settings, <<"appearance", "fontFamily">>) = Str("smooch-sans")
    /\ Read(settings, <<"advanced", "keyboardShortcuts">>) = Obj

\* The export-settings handler resumes from its save dialog and returns.
ExportStep == exportDialog /\ ~exportDialog'

ExportedEqualsMemory ==
    lastReq.status = "success"
        => /\ files[lastReq.dest].state = "text"
           /\ DeepEqual(JSONParse(files[lastReq.dest].text), settings)

\* C10: when the user chooses a destination and the write succeeds, the
\* exported file parses to a document deep-equal to the in-memory document, and
\* export changes neither the in-memory document nor the settings file, also
\* when other settings requests are handled while the save dialog is open.
C10_ExportLeavesStoreAlone ==
    [][ExportStep
        => /\ ExportedEqualsMemory'
           /\ settings' = settings
           /\ files'[settingsPath] = files[settingsPath]]_vars

\* C10 as amended: the settings file is left alone unless it is itself the
\* destination the user chose.
C10_ExportLeavesStoreAloneUnlessChosen ==
    [][ExportStep
        => /\ ExportedEqualsMemory'
           /\ settings' = settings
           /\ lastReq'.dest = settingsPath
              \/ files'[settingsPath] = files[settingsPath]]_vars

C10_Witness ==
    /\ lastReq.op = "export-settings"
    /\ lastReq.status = "success"
    /\ lastReq.dest = ExportPath
    /\ duringDialog
    /\ Read(settings, <<"appearance", "theme">>) = Str("light")
    /\ Read(JSONParse(files[ExportPath].text), <<"appearance", "theme">>) = Str("light")

\* A step in which registerGlobalShortcuts has run.
RegistrationStep ==
    \/ hostPc = "start" /\ hostPc' = "ready"
    \/ lastReq'.op = "update-global-shortcuts" /\ nOps' = nOps + 1

closeKey == <<"advanced", "keyboardShortcuts", "close">>

\* close is bound to A and the stored shortcut for close is another accelerator.
CloseRebound ==
    /\ "close" \in DOMAIN globalShortcuts
    /\ Read(settings, closeKey).t = "string"
    /\ Read(settings, closeKey).s \in Accelerators
    /\ Read(settings, closeKey).s # globalShortcuts["close"]

BoundTo(os, action) == {a \in DOMAIN os : os[a] = action}

BoundIsTracked ==
    /\ DOMAIN osShortcuts = Range(globalShortcuts)
    /\ \A action \in DOMAIN globalShortcuts :
          osShortcuts[globalShortcuts[action]] = action

\* C9: if close is bound to accelerator A, the shortcut for close is set to a
\* different accelerator B and the shortcuts are re-registered, then only B is
\* bound to close (no accelerator other than B triggers close) and A triggers
\* no action (A is no longer bound at all); and after every
\* registerGlobalShortcuts call the accelerators bound at the OS are exactly
\* those recorded in the tracked-shortcut map.
C9_OnlyLatestAcceleratorBound ==
    [][RegistrationStep
        => /\ BoundIsTracked'
           /\ CloseRebound
                => /\ BoundTo(osShortcuts', "close") \subseteq {Read(settings, closeKey).s}
                   /\ globalShortcuts["close"] \notin DOMAIN osShortcuts']_vars

\* C9 as amended: no accelerator other than B is bound to close and A no
\* longer triggers close; A stays bound only when it is also the stored
\* accelerator of another action, which it then triggers.
C9_NoEarlierAcceleratorBoundToClose ==
    [][RegistrationStep
        => /\ BoundIsTracked'
           /\ CloseRebound
                => /\ BoundTo(osShortcuts', "close") \subseteq {Read(settings, closeKey).s}
                   /\ globalShortcuts["close"] \notin BoundTo(osShortcuts', "close")
                   /\ globalShortcuts["close"] \in DOMAIN osShortcuts'
                        => \E action \in shortcutActions \ {"close"} :
                              /\ osShortcuts'[globalShortcuts["close"]] = action
                              /\ Read(settings, <<"advanced", "keyboardShortcuts", action>>)
                                    = Str(globalShortcuts["close"])]_vars

C9_Witness ==
    /\ lastReq.op = "update-global-shortcuts"
    /\ nOps = 2
    /\ takenByOthers = {}
    /\ Read(settings, <<"advanced", "keyboardShortcuts", "show">>) = Str("Ctrl+Shift+S")
    /\ "close" \in DOMAIN globalShortcuts
    /\ globalShortcuts["close"] = "Ctrl+W"
    /\ BoundTo(osShortcuts, "close") = {"Ctrl+W"}
    /\ "Ctrl+Q" \notin DOMAIN osShortcuts

\* C8: when the user saves a batch of pending settings that holds an
\* advanced.keyboardShortcuts key, the page issues an update-global-shortcuts
\* request once the save-setting requests of the batch have completed.
C8_SaveBatchUpdatesShortcuts ==
    (saveOutcome = "saved" /\ shortcutsChanged(batch)) => updateRequests > 0

\* The export click takes the result of its invoke and shows a notification.
ExportReported == exportIpc.state = "resolved" /\ exportIpc'.state = "idle"

\* C11: export-settings never throws to the page and returns exactly one of
\* {success: true, path} when the file was written, a canceled result when the
\* user dismissed the dialog, and {success: false, error} with the message when
\* the write failed; the page reports each of the three cases distinctly.
C11_ExportResultIsDiscriminated ==
    [][/\ exportIpc'.state # "rejected"
       /\ ExportStep
            => \/ /\ lastReq'.ret = exportSuccess(lastReq'.dest)
                  /\ files'[lastReq'.dest] = TextFile(JSONStringify(settings))
               \/ /\ lastReq'.ret = exportCanceled
                  /\ lastReq'.dest = ""
                  /\ files' = files
               \/ /\ lastReq'.ret = exportFailure(WriteError)
                  /\ lastReq'.dest \in FilePaths
                  /\ files'[lastReq'.dest] \in {files[lastReq'.dest], Corrupt}
       /\ ExportReported
            => \/ \E filePath \in FilePaths :
                     /\ exportIpc.result = exportSuccess(filePath)
                     /\ exportNotice' = Notice("Settings exported to ", filePath, "primary")
               \/ /\ exportIpc.result = exportCanceled
                  /\ exportNotice' = Notice("Export canceled", "", "info")
               \/ /\ exportIpc.result = exportFailure(WriteError)
                  /\ exportNotice' = Notice("Export failed: ", WriteError, "error")]_vars

C11_Witness ==
    /\ exportIpc = [state |-> "idle", result |-> exportFailure(WriteError)]
    /\ exportNotice = Notice("Export failed: ", WriteError, "error")
    /\ lastReq.op = "export-settings"
    /\ lastReq.status = "error"
    /\ files[ExportPath] = Missing

\* The host handles a save-setting request; its disk write fails.
SaveSettingWriteFails ==
    /\ nOps' = nOps + 1
    /\ lastReq'.op = "save-setting"
    /\ lastReq'.status = "ok"
    /\ ~lastReq'.written

\* The first persist that succeeds after a save-setting whose write failed.
PersistAfterFailure ==
    /\ lastReq.op = "save-setting" /\ lastReq.status = "ok" /\ ~lastReq.written
    /\ nOps' = nOps + 1
    /\ lastReq'.op \in {"save-setting", "restore-default-settings"}
    /\ lastReq'.written

\* The value of the failed save is still the stored one: the persisting
\* request did not write to its path, above it or below it.
StillStored ==
    /\ lastReq'.op = "save-setting"
    /\ ~IsPrefix(lastReq.key, lastReq'.key)
    /\ ~IsPrefix(lastReq'.key, lastReq.key)

\* C13: if the disk write fails while persisting a save-setting, the handler
\* does not throw and acknowledges, the in-memory document holds the new value,
\* the file keeps its previous content, and the next successful persist writes
\* the whole in-memory document including that value.
C13_FailedWriteKeepsFile ==
    [][/\ SaveSettingWriteFails
            => /\ Read(settings', lastReq'.key) = lastReq'.value
               /\ files'[settingsPath] = files[settingsPath]
       /\ PersistAfterFailure
            => /\ files'[settingsPath] = TextFile(JSONStringify(settings'))
               /\ StillStored => Read(settings', lastReq.key) = lastReq.value]_vars

\* C13 as amended: after the failed write the file holds its previous content
\* or, when the write failed after the file was opened, no parsable content.
C13_FailedWriteKeepsMemory ==
    [][/\ SaveSettingWriteFails
            => /\ Read(settings', lastReq'.key) = lastReq'.value
               /\ files'[settingsPath] \in {files[settingsPath], Corrupt}
       /\ PersistAfterFailure
            => /\ files'[settingsPath] = TextFile(JSONStringify(settings'))
               /\ StillStored => Read(settings', lastReq.key) = lastReq.value]_vars

C13_Witness ==
    /\ nOps = 1
    /\ lastReq.op = "save-setting"
    /\ lastReq.key = <<"appearance", "theme">>
    /\ lastReq.value = Str("light")
    /\ lastReq.status = "ok"
    /\ ~lastReq.written
    /\ Read(settings, <<"appearance", "theme">>) = Str("light")
    /\ Read(settings, <<"appearance", "fontFamily">>) = Str("inconsolata")
    /\ files[settingsPath] = Corrupt

alwaysOnTopKey == <<"behavior", "alwaysOnTop">>

\* C12: save-setting("behavior.alwaysOnTop", true) makes the tracked main
\* window report always-on-top = true and save-setting with false makes it
\* report false, whenever the request is issued; a main window created after
\* the request is created with the stored value.
C12_AlwaysOnTopFollowsSetting ==
    (lastReq.op = "save-setting" /\ lastReq.key = alwaysOnTopKey)
        => /\ lastReq.status = "ok"
           /\ Read(settings, alwaysOnTopKey) = lastReq.value
           /\ window.exists => (window.alwaysOnTop <=> lastReq.value = Bool(TRUE))

C12_Witness ==
    /\ lastReq.op = "save-setting"
    /\ lastReq.key = alwaysOnTopKey
    /\ lastReq.value = Bool(TRUE)
    /\ nOps = 2
    /\ splashTimers = 0
    /\ window.exists
    /\ window.alwaysOnTop
    /\ ~window.readyToShow

\* The timer set by splash-complete fires and closeSplashAndShowMain has run.
SplashHandled == splashTimers' = splashTimers - 1

\* C16: after the host has handled a splash-complete request, the splash
\* window is destroyed and the main window exists and is visible.
C16_SplashCompleteRevealsMain ==
    [][SplashHandled
        => /\ ~splashWindow'
           /\ window'.exists
           /\ window'.visible]_vars

\* A resize or move event of the main window has been handled.
GeometryStep == nOps' = nOps + 1 /\ lastReq'.op \in {"resize", "move"}

windowPath(k) == <<"window", k>>

\* The event's two fields are stored, the other two geometry fields and every
\* path outside settings.window are as before.
GeometryStored(set, kept) ==
    /\ \A k \in set : Read(settings', windowPath(k)) = Read(lastReq'.ret, <<k>>)
    /\ \A k \in kept : Read(settings', windowPath(k)) = Read(settings, windowPath(k))
    /\ \A q \in PathsOf(settings) \cup PathsOf(settings') :
          ~IsPrefix(<<"window">>, q) => Read(settings', q) = Read(settings, q)

\* saveSettings() was called on the new document in this step.
WriteAttempted ==
    IF lastReq'.written
    THEN files'[settingsPath] = TextFile(JSONStringify(settings'))
    ELSE files'[settingsPath] \in {files[settingsPath], Corrupt}

\* C20: while behavior.rememberWindowSize is enabled every resize event stores
\* the window's width and height and every move event its x and y, each
\* followed at once by a disk write of its own; a resize leaves x and y and a
\* move leaves width and height as they were; while the setting is disabled the
\* events leave the document and the file unchanged.
C20_GeometryWrittenPerEvent ==
    [][GeometryStep
        => IF Truthy(Read(settings, <<"behavior", "rememberWindowSize">>))
           THEN /\ IF lastReq'.op = "resize"
                   THEN GeometryStored({"width", "height"}, {"x", "y"})
                   ELSE GeometryStored({"x", "y"}, {"width", "height"})
                /\ WriteAttempted
           ELSE /\ settings' = settings
                /\ files' = files]_vars

C20_Witness ==
    /\ lastReq.op = "move"
    /\ lastReq.written
    /\ nOps = 3
    /\ Read(settings, windowPath("x")) = Num("40")
    /\ Read(settings, windowPath("y")) = Num("60")
    /\ Read(settings, windowPath("width")) = Num("800")
    /\ Read(settings, windowPath("height")) = Num("600")
    /\ files[settingsPath] = TextFile(JSONStringify(settings))

\* The accelerator the document stores for an action, "" when it stores none.
configured(doc, action) ==
    LET v == Read(doc, <<"advanced", "keyboardShortcuts", action>>)
    IN  IF v.t = "string" THEN v.s ELSE ""

\* globalShortcut.register(accelerator) would succeed for the action: the value
\* is an accelerator, no other application holds it and no action registered
\* before this one in the same call has taken it.
Registrable(doc, action, os) ==
    /\ configured(doc, action) \in Accelerators
    /\ configured(doc, action) \notin takenByOthers
    /\ configured(doc, action) \in DOMAIN os => os[configured(doc, action)] = action

\* C14: a registration that fails (register returns false or throws) does not
\* stop the registration of the remaining actions: when registerGlobalShortcuts
\* returns, every configured action whose accelerator can be registered is
\* bound, and an action whose registration failed is not in the tracked map.
C14_FailedRegistrationSkipped ==
    [][RegistrationStep
        => \A action \in shortcutActions :
              IF Registrable(settings', action, osShortcuts')
              THEN /\ action \in DOMAIN globalShortcuts'
                   /\ globalShortcuts'[action] = configured(settings', action)
                   /\ configured(settings', action) \in DOMAIN osShortcuts'
              ELSE action \notin DOMAIN globalShortcuts']_vars

C14_Witness ==
    /\ lastReq.op = "update-global-shortcuts"
    /\ takenByOthers = {"Ctrl+W"}
    /\ configured(settings, "close") = "Ctrl+W"
    /\ configured(settings, "minimize") = "Ctrl+"
    /\ DOMAIN globalShortcuts = {"maximize", "show", "hide"}
    /\ DOMAIN osShortcuts = {"Ctrl+Shift+M", "Ctrl+Shift+S", "Ctrl+H"}

Mutations == {"save-setting", "save-settings", "restore-default-settings",
              "resize", "move"}

\* A handler that mutates the settings document has run.
MutationStep == nOps' = nOps + 1 /\ lastReq'.op \in Mutations

\* C15: every handler that mutates the settings document does its in-memory
\* update and its disk write as one step, no other handler sees it half-done,
\* and after any interleaving of requests the file equals the in-memory
\* document that the mutations give in the order they were handled.
C15_MutationsWriteThrough ==
    [][/\ (hostPc = "ready" /\ settings' # settings) => MutationStep
       /\ (MutationStep /\ lastReq'.status # "ignored")
            => files'[settingsPath] = TextFile(JSONStringify(settings'))]_vars

\* C15 as amended: every change of the document happens in the step of one
\* mutating handler, together with its attempt to write; the file equals the
\* in-memory document after every mutation whose write did not fail.
C15_MutationsAreSingleSteps ==
    [][/\ (hostPc = "ready" /\ settings' # settings) => MutationStep
       /\ (MutationStep /\ lastReq'.status = "ok") => WriteAttempted
       /\ (MutationStep /\ lastReq'.status # "ok")
            => /\ settings' = settings
               /\ files' = files]_vars

C15_Witness ==
    /\ exportDialog
    /\ duringDialog
    /\ nOps = 3
    /\ lastReq.op = "save-settings"
    /\ lastReq.written
    /\ Read(settings, <<"appearance", "theme">>) = Str("light")
    /\ Read(settings, windowPath("x")) = Num("40")
    /\ files[settingsPath] = TextFile(JSONStringify(settings))

\* The paths of an update that hold a value (not a mapping).
UpdatedPaths(newSettings) ==
    {newSettings[i].p : i \in {j \in DOMAIN newSettings : newSettings[j].v # Obj}}

\* C19: a partial update merged by save-settings leaves every settings path
\* that is not in the update unchanged, sibling keys of an updated key in the
\* same section included, and when it returns the file equals the in-memory
\* document.
C19_SaveSettingsKeepsOtherPaths ==
    [][(nOps' = nOps + 1 /\ lastReq'.op = "save-settings")
        => /\ \A q \in PathsOf(settings) \ UpdatedPaths(lastReq'.ret) :
                 Read(settings', q) = Read(settings, q)
           /\ \A q \in UpdatedPaths(lastReq'.ret) :
                 Read(settings', q) = Read(lastReq'.ret, q)
           /\ files'[settingsPath] = TextFile(JSONStringify(settings'))]_vars

\* C17: every notification is delivered at most once per underlying event: a
\* maximize, unmaximize or navigation event pushes at most one message to the
\* page, and the splash page signals splash-complete at most once in its run.
C17_AtMostOncePerEvent ==
    /\ Len(pushed.channels) <= 1
    /\ splashPage.signals <= 1

\* C18: at a change of the OS colour-scheme preference the page with auto
\* selected applies the theme the new preference resolves to, and the page
\* with another theme selected keeps the theme it has applied.
OsPreferenceChanges == prefersDark' # prefersDark
C18_AutoFollowsOsPreference ==
    [][OsPreferenceChanges /\ rPc # "none" =>
          IF themeSelect = "auto"
          THEN dataTheme' = (IF prefersDark' THEN "dark" ELSE "light")
          ELSE dataTheme' = dataTheme]_vars

C23_AtMostOneTray == tray <= 1

\* C22: choosing the quit entry of the tray menu eventually terminates the
\* application, closeToTray enabled or not.
C22_TrayQuitTerminates == (lastReq.op = "tray-quit") ~> (hostPc = "quit")

CloseRequested == WindowCloseRequest \/ CloseShortcut \/ OsClose
MinimizeRequested == WindowMinimizeRequest \/ MinimizeShortcut \/ OsMinimize
InTray == window'.exists /\ ~window'.visible /\ tray' > 0

C25_SplashAlwaysEnds == <>(splashPage.signals > 0 /\ mainWindows > 0)

\* C26: however many splash-complete requests arrive and however they
\* interleave with window close events, the host creates at most one main
\* window and destroys the splash window at most once.
C26_OneMainWindowOneSplashDestroy ==
    /\ mainWindows <= 1
    /\ splashDestroys <= 1

\* C27: whenever the main window exists its always-on-top state equals
\* settings.behavior.alwaysOnTop of the in-memory document.
C27_AlwaysOnTopEqualsSetting ==
    window.exists =>
       window.alwaysOnTop = Truthy(Read(settings, <<"behavior", "alwaysOnTop">>))

\* C28: once the main window and its page exist, every maximize and
\* unmaximize event is notified, so that the page's isMaximized flag
\* eventually equals the window's maximized state.
C28_RendererLearnsMaximizedState ==
    [](rPc # "none" => <>(isMaximized = window.maximized))

\* C30: every bridge function the pages call is exposed under that name and
\* has its host side, and init() runs to its end, where the saved appearance
\* settings are applied.
C30_BridgeCompleteInitCompletes ==
    rPc # "none" =>
        /\ \A name \in PageCalls : callable(electronAPI, name)
        /\ initError = ""

\* The step in which saveAllPendingSettings completes: the first loop has
\* sent the entries of batch, the second loop writes the entries of
\* pendingSettings into the local copy, then pendingSettings is cleared.
SaveCompletes ==
    /\ rPc = "saving"
    /\ rPc' # "saving"
    /\ saveOutcome' # "failed"

\* C29: when saveAllPendingSettings completes, every key/value written into
\* the local settings copy has been sent by a save-setting request, every
\* edit recorded while the save was awaiting the host is either sent or still
\* pending afterwards, and hasUnsavedChanges is true exactly when
\* pendingSettings is non-empty.
C29_SaveLosesNothingInventsNothing ==
    [][ /\ hasUnsavedChanges' = (pendingSettings' # << >>)
        /\ SaveCompletes =>
              \A i \in DOMAIN pendingSettings :
                  \/ \E j \in DOMAIN batch : batch[j] = pendingSettings[i]
                  \/ \E j \in DOMAIN pendingSettings' :
                         pendingSettings'[j] = pendingSettings[i] ]_vars
====
